---- MODULE Spec2Model ----
(***************************************************************************)
(* A model of the BFS crawl sink: the promise-chain mutation lock and the  *)
(* handlers that use it, the frontier engine (/dedupe/level and the        *)
(* streaming run buckets), the upload registry, the resort pass and the    *)
(* URL normalizer.  Each subsystem has its own specification over the      *)
(* shared variables; the variables a specification does not use stay at    *)
(* their initial value.                                                    *)
(***************************************************************************)
EXTENDS Integers, Sequences, FiniteSets, TLC

VARIABLES
  levels,     \* state.json: st.levels, a function from the stored levels to {visited, pages, files}
  art,        \* the artifact directory: file name -> content
  runs,       \* the streaming run buckets (JSONL lines and .done marker), one per level
  now,        \* the clock: the number of requests handled so far
  lastReq,    \* the last request handled
  hist,       \* what the last request did, relative to the state before it
  urlTable,   \* normalizeUrl and extFromUrl on the named URLs, computed once
  chain,      \* lock.js: the withLock calls made so far, in call order
  lastWrite,  \* the last handler that changed persistent state, and the section it ran in
  overlap,    \* TRUE once a critical section began while another was suspended
  norm,       \* urlnorm.js: an input string and the results of normalizeUrl applied once and twice
  idx,        \* downloaded_hash_index.json: the hash records, in key insertion order
  disk,       \* the download tree: path -> bytes of the file at that path
  manifest,   \* the per-level manifests: level -> the {sha256, saved_to} entries
  clock,      \* the time of the registry requests: the number handled so far
  last,       \* what the last registry request did
  buckets,    \* runs/<domain>/: domain -> level -> the JSONL bucket and its .done marker
  dstate,     \* _meta/<domain>/state.json: domain -> level -> the lines folded into it
  dart,       \* _meta/<domain>/artifacts: domain -> N -> the lines in urls-level-N.json
  time,       \* Date.now()
  ticked,     \* the instant of the watchdog's last tick
  ops,        \* the requests made to the run handlers so far
  vstore,     \* the domain directories and the files the handlers have written
  resp,       \* the answer to the last request: status, and whether the disk changed
  rebuilt,     \* state.js: the state reconcileStateFromArtifacts returned, and the state it was given
  jfiles, \* lib/fsx.js: the target path of writeJson and the temp files beside it
  jcall, \* lib/fsx.js: the call of writeJson in progress, or the last one
  parts, \* runs/: the buckets of a second run_id, one per level
  reqs, \* the requests whose handlers called withLock, in call order
  jsonl, \* the characters of the one JSONL bucket the appends go to
  acks, \* the requests answered ok, in the order of the answers
  saves, \* file_saves.jsonl: the lines the uploads logged
  unreadable, \* the buckets whose JSONL file cannot be read: finalizing them throws
  wdlog \* the watchdog: ticks run, AUTO_FINALIZE_ERROR lines logged, and whether the timer is alive

lockVars == <<chain, lastWrite, overlap>>
normVars == <<norm>>
frontVars == <<levels, art, runs, now, lastReq, hist, urlTable>>
upVars == <<idx, disk, manifest, clock, last>>
streamVars == <<buckets, dstate, dart, time, ticked, ops>>
valVars == <<vstore, resp>>
recVars == <<rebuilt>>
jsonVars == <<jfiles, jcall>>
partVars == <<parts>>
orderVars == <<reqs, jsonl, acks, saves>>
faultVars == <<unreadable, wdlog>>

\* What each subsystem's actions leave alone.
nonLockVars == <<normVars, frontVars, upVars, streamVars, valVars, recVars, jsonVars, partVars, orderVars, faultVars>>
nonNormVars == <<lockVars, frontVars, upVars, streamVars, valVars, recVars, jsonVars, partVars, orderVars, faultVars>>
nonFrontVars == <<lockVars, normVars, upVars, streamVars, valVars, recVars, jsonVars, partVars, orderVars, faultVars>>
nonUpVars == <<lockVars, normVars, frontVars, streamVars, valVars, recVars, jsonVars, partVars, orderVars, faultVars>>
nonStreamVars == <<lockVars, normVars, frontVars, upVars, valVars, recVars, jsonVars, partVars, orderVars, faultVars>>
nonValVars == <<lockVars, normVars, frontVars, upVars, streamVars, recVars, jsonVars, partVars, orderVars, faultVars>>
nonRecVars == <<lockVars, normVars, frontVars, upVars, streamVars, valVars, jsonVars, partVars, orderVars, faultVars>>
nonJsonVars == <<lockVars, normVars, frontVars, upVars, streamVars, valVars, recVars, partVars, orderVars, faultVars>>
nonPartVars == <<lockVars, normVars, frontVars, upVars, streamVars, valVars, recVars, jsonVars, orderVars, faultVars>>

vars == <<lockVars, normVars, frontVars, upVars, streamVars, valVars, recVars, jsonVars, partVars, orderVars, faultVars>>

----------------------------------------------------------------------------
(* Bounds of the model *)

MaxCalls == 3    \* withLock calls in one behaviour
MaxAwaits == 2   \* suspension points of one asynchronous critical section

MaxLevel == 2    \* BFS levels 1..MaxLevel
MaxRequests == 2 \* requests to the frontier engine in one behaviour

----------------------------------------------------------------------------
(* urlnorm.js.  A string is a sequence of one-character strings. *)

MaxNest == 9     \* depth of the nested "a..amp;mp;.." input (the cleaning cap is 8)
MaxTokens == 2   \* tokens in one generated payload
CleanCap == 8    \* for (let i = 0; i < 8; i++)

Lower(c) ==
  CASE c = "A" -> "a" [] c = "M" -> "m" [] c = "P" -> "p" [] c = "B" -> "b"
    [] c = "D" -> "d" [] c = "F" -> "f" [] OTHER -> c

\* Does pat (given in lower case when ci) match at the head of s?
MatchAt(s, pat, ci) ==
  /\ Len(s) >= Len(pat)
  /\ \A i \in 1..Len(pat) : (IF ci THEN Lower(s[i]) ELSE s[i]) = pat[i]

\* String.prototype.replace with a global regex of literal characters.
RECURSIVE ReplaceAll(_, _, _, _)
ReplaceAll(s, pat, rep, ci) ==
  IF Len(s) < Len(pat) THEN s
  ELSE IF MatchAt(s, pat, ci)
       THEN rep \o ReplaceAll(SubSeq(s, Len(pat) + 1, Len(s)), pat, rep, ci)
       ELSE <<Head(s)>> \o ReplaceAll(Tail(s), pat, rep, ci)

RECURSIVE TrimLeft(_)
TrimLeft(s) == IF s # <<>> /\ Head(s) = " " THEN TrimLeft(Tail(s)) ELSE s

RECURSIVE TrimRight(_)
TrimRight(s) ==
  IF s # <<>> /\ s[Len(s)] = " " THEN TrimRight(SubSeq(s, 1, Len(s) - 1)) ELSE s

Trim(s) == TrimRight(TrimLeft(s))

\* One pass of the loop body of cleanAmpArtifacts.
CleanPass(s) ==
  LET s1 == ReplaceAll(s, <<"&", "a", "m", "p", ";">>, <<"&">>, FALSE)
      s2 == ReplaceAll(s1, <<"%", "2", "6", "a", "m", "p", "%", "3", "b">>, <<"&">>, TRUE)
      s3 == ReplaceAll(s2, <<"a", "m", "p", "%", "3", "b">>, <<>>, TRUE)
  IN ReplaceAll(s3, <<"a", "m", "p", ";">>, <<>>, FALSE)

RECURSIVE CleanLoop(_, _)
CleanLoop(s, i) ==
  IF i >= CleanCap THEN s
  ELSE LET t == CleanPass(s) IN IF t = s THEN s ELSE CleanLoop(t, i + 1)

cleanAmpArtifacts(input) ==
  LET s == Trim(input) IN IF s = <<>> THEN s ELSE CleanLoop(s, 0)

\* The origin every absolute URL of the model has.
Origin == <<"h", "t", "t", "p", ":", "/", "/", "h">>

\* new URL(s) succeeds on the absolute URLs of the model and throws on a string
\* with no scheme.
Parses(s) == MatchAt(s, Origin, FALSE)

\* Position of the first occurrence of character c in s, or 0.
RECURSIVE IndexOf(_, _, _)
IndexOf(s, c, i) ==
  IF i > Len(s) THEN 0 ELSE IF s[i] = c THEN i ELSE IndexOf(s, c, i + 1)

Before(s, c) == LET k == IndexOf(s, c, 1) IN IF k = 0 THEN s ELSE SubSeq(s, 1, k - 1)
After(s, c) == LET k == IndexOf(s, c, 1) IN IF k = 0 THEN <<>> ELSE SubSeq(s, k + 1, Len(s))

\* The letters and digits of the model's alphabet.
AlNum == {"a", "m", "p", "A", "M", "P", "x", "k", "h", "t", "i", "n", "d", "e", "l",
          "b", "B", "f", "2", "3", "5", "6", "0", "D", "F"}

\* The characters application/x-www-form-urlencoded leaves alone.
Unreserved == AlNum \cup {".", "-", "_", "*"}

\* The urlencoded serializer, one character.
EncodeChar(c) ==
  CASE c \in Unreserved -> <<c>>
    [] c = " " -> <<"+">>
    [] c = ";" -> <<"%", "3", "B">>
    [] c = "&" -> <<"%", "2", "6">>
    [] c = "=" -> <<"%", "3", "D">>
    [] c = "%" -> <<"%", "2", "5">>
    [] c = "+" -> <<"%", "2", "B">>
    [] c = "/" -> <<"%", "2", "F">>
    [] c = "?" -> <<"%", "3", "F">>
    [] c = ":" -> <<"%", "3", "A">>

RECURSIVE Encode(_)
Encode(s) == IF s = <<>> THEN <<>> ELSE EncodeChar(Head(s)) \o Encode(Tail(s))

\* The percent escapes the model decodes (hex digits in either case).
Escapes == {<<"3", "b", ";">>, <<"2", "6", "&">>, <<"3", "d", "=">>, <<"2", "5", "%">>,
            <<"2", "b", "+">>, <<"2", "f", "/">>, <<"3", "f", "?">>, <<"3", "a", ":">>,
            <<"2", "0", " ">>}

\* The urlencoded parser's decoding of a name or a value: "+" is a space and a
\* percent escape is its character.
RECURSIVE Decode(_)
Decode(s) ==
  IF s = <<>> THEN <<>>
  ELSE IF Head(s) = "+" THEN <<" ">> \o Decode(Tail(s))
  ELSE IF Head(s) = "%" /\ Len(s) >= 3
          /\ \E e \in Escapes : e[1] = Lower(s[2]) /\ e[2] = Lower(s[3])
       THEN LET e == CHOOSE e \in Escapes : e[1] = Lower(s[2]) /\ e[2] = Lower(s[3])
            IN <<e[3]>> \o Decode(SubSeq(s, 4, Len(s)))
  ELSE <<Head(s)>> \o Decode(Tail(s))

\* U.searchParams.entries(): the query split at "&", empty pieces skipped, each
\* piece split at its first "=" and decoded.
RECURSIVE ParseQuery(_)
ParseQuery(q) ==
  IF q = <<>> THEN <<>>
  ELSE LET piece == Before(q, "&")
           rest == After(q, "&")
       IN IF piece = <<>> THEN ParseQuery(rest)
          ELSE <<[k |-> Decode(Before(piece, "=")), v |-> Decode(After(piece, "="))]>>
               \o ParseQuery(rest)

\* dedupeIdenticalQueryPairs: the first occurrence of each (key, value) pair.
RECURSIVE DedupePairs(_, _)
DedupePairs(ps, seen) ==
  IF ps = <<>> THEN <<>>
  ELSE IF Head(ps) \in seen THEN DedupePairs(Tail(ps), seen)
  ELSE <<Head(ps)>> \o DedupePairs(Tail(ps), seen \cup {Head(ps)})

RECURSIVE SerializePairs(_)
SerializePairs(ps) ==
  IF ps = <<>> THEN <<>>
  ELSE Encode(Head(ps).k) \o <<"=">> \o Encode(Head(ps).v)
       \o (IF Len(ps) > 1 THEN <<"&">> ELSE <<>>) \o SerializePairs(Tail(ps))

\* Length of the run of "/" at the head of p.
RECURSIVE SlashRun(_)
SlashRun(p) == IF p # <<>> /\ Head(p) = "/" THEN 1 + SlashRun(Tail(p)) ELSE 0

\* pathname.replace(/\/\/{2,}/g, "/"): a slash followed by two or more slashes.
RECURSIVE CollapseSlashes(_)
CollapseSlashes(p) ==
  IF p = <<>> THEN <<>>
  ELSE LET n == SlashRun(p)
       IN IF n >= 3 THEN <<"/">> \o CollapseSlashes(SubSeq(p, n + 1, Len(p)))
          ELSE IF n >= 1 THEN SubSeq(p, 1, n) \o CollapseSlashes(SubSeq(p, n + 1, Len(p)))
          ELSE <<Head(p)>> \o CollapseSlashes(Tail(p))

IndexHtml == <<"/", "i", "n", "d", "e", "x", ".", "h", "t", "m", "l">>

\* if (U.pathname.endsWith("/index.html")) U.pathname = ...replace(/\/index\.html$/, "/")
StripIndexHtml(p) ==
  IF Len(p) >= Len(IndexHtml)
     /\ SubSeq(p, Len(p) - Len(IndexHtml) + 1, Len(p)) = IndexHtml
  THEN SubSeq(p, 1, Len(p) - Len(IndexHtml)) \o <<"/">>
  ELSE p

\* The body of the try block of normalizeUrl for a string that new URL accepts:
\* the fragment is dropped, the path rewritten, the query re-serialized from its
\* parsed pairs.
NormalizeParsed(s) ==
  LET rest == SubSeq(s, Len(Origin) + 1, Len(s))
      noHash == Before(rest, "#")
      rawPath == Before(noHash, "?")
      path == CollapseSlashes(StripIndexHtml(IF rawPath = <<>> THEN <<"/">> ELSE rawPath))
      pairs == DedupePairs(ParseQuery(After(noHash, "?")), {})
  IN Origin \o path \o (IF pairs = <<>> THEN <<>> ELSE <<"?">> \o SerializePairs(pairs))

normalizeUrl(u) ==
  LET cleanedInput == Trim(cleanAmpArtifacts(u))
  IN IF Parses(cleanedInput) THEN NormalizeParsed(cleanedInput)
     ELSE cleanAmpArtifacts(Trim(u))

\* The pieces generated inputs are made of.
Tokens == { <<"&", "a", "m", "p", ";">>, <<"a", "m", "p", ";">>, <<"A", "M", "P", ";">>,
            <<"a", "m", "p", "%", "3", "B">>, <<"%", "2", "6", "a", "m", "p", "%", "3", "B">>,
            <<"x">>, <<"&">>, <<" ">>, <<"=">> }

RECURSIVE TokenStrings(_)
TokenStrings(n) ==
  IF n = 0 THEN {<<>>}
  ELSE LET shorter == TokenStrings(n - 1)
       IN shorter \cup {t \o w : t \in Tokens, w \in shorter}

RECURSIVE Repeat(_, _)
Repeat(w, n) == IF n = 0 THEN <<>> ELSE w \o Repeat(w, n - 1)

\* "a" k times then "mp;" k times: each cleaning pass uncovers one more "amp;".
Nest(k) == Repeat(<<"a">>, k) \o Repeat(<<"m", "p", ";">>, k)

Payloads == TokenStrings(MaxTokens) \cup {Nest(k) : k \in 1..MaxNest}

Paths == { <<"/">>, <<"/", "d">> \o IndexHtml, <<"/", "d", "/", "/", "e">>,
           <<"/", "d", "/", "/", "/", "e">> }

\* Scheme-less strings, and absolute URLs with the payload as a query value or
\* as a fragment.
NormInputs ==
  Payloads
  \cup {Origin \o p \o <<"?", "k", "=">> \o y : p \in Paths, y \in Payloads}
  \cup {Origin \o p \o <<"#">> \o y : p \in Paths, y \in {<<>>, <<"x">>}}

----------------------------------------------------------------------------
(* The URLs the crawler reports are named; what normalizeUrl and extFromUrl
   make of a name is computed from its characters. *)

\* The path /electionresults_2020/ of a general-election archive.
ResultsDir ==
  <<"/", "e", "l", "e", "c", "t", "i", "o", "n", "r", "e", "s", "u", "l", "t", "s",
    "_", "2", "0", "2", "0", "/">>

\* The characters of each named URL.
Chars ==
  [a |-> Origin \o <<"/", "a">>,
   afrag |-> Origin \o <<"/", "a", "#", "x">>,
   b |-> Origin \o <<"/", "b">>,
   q |-> Origin \o <<"/", "?", "k", "=", "A", "M", "P", ";">>,
   q1 |-> Origin \o <<"/", "?", "k", "=", "A", "M", "P", "%", "3", "B">>,
   q2 |-> Origin \o <<"/", "?", "k", "=">>,
   f |-> Origin \o <<"/", "f", ".", "p", "d", "f">>,
   s |-> Origin \o ResultsDir,
   e |-> Origin \o ResultsDir \o <<"e", "1", "/">>]

UrlNames == DOMAIN Chars

\* The name of a string of characters.
NameOf(s) == CHOOSE n \in UrlNames : Chars[n] = s

Bin == <<"b", "i", "n">>

ExtChars == [bin |-> Bin, pdf |-> <<"p", "d", "f">>, PDF |-> <<"P", "D", "F">>]

SeqToSet(s) == {s[i] : i \in 1..Len(s)}

\* Length of the run of letters and digits at the head of s.
RECURSIVE AlNumRun(_)
AlNumRun(s) == IF s # <<>> /\ Head(s) \in AlNum THEN 1 + AlNumRun(Tail(s)) ELSE 0

RECURSIVE LowerAll(_)
LowerAll(s) == IF s = <<>> THEN <<>> ELSE <<Lower(Head(s))>> \o LowerAll(Tail(s))

\* String(u).match(/\.([a-z0-9]+)(?:\?|#|$)/i), "bin" when nothing matches.
RECURSIVE extFromUrl(_)
extFromUrl(u) ==
  IF u = <<>> THEN Bin
  ELSE LET n == AlNumRun(Tail(u))
       IN IF Head(u) = "." /\ n >= 1 /\ (Len(u) = n + 1 \/ u[n + 2] \in {"?", "#"})
          THEN LowerAll(SubSeq(u, 2, n + 1))
          ELSE extFromUrl(Tail(u))

\* extFromUrl and toLowerCase on the named URLs and extensions.
LowerExt == [e \in DOMAIN ExtChars |-> CHOOSE d \in DOMAIN ExtChars : ExtChars[d] = LowerAll(ExtChars[e])]

----------------------------------------------------------------------------
(* lib/routing.js on the characters of a URL.  The electorates file lists one
   term, term_53_(2020), whose official_order is {"1": "Mana"}. *)

TermKey == "term_53_(2020)"
ElectorateName == <<"m", "a", "n", "a">>   \* asciiFold("Mana")
ElectorateFolder == "001_Mana"

Digits == {"0", "1", "2", "3", "4", "5", "6", "7", "8", "9"}

Includes(u, pat) == \E i \in 1..Len(u) : MatchAt(SubSeq(u, i, Len(u)), pat, FALSE)

\* url.match(/(19\d{2}|20\d{2})/)
HasYear(u) ==
  \E i \in 1..(Len(u) - 3) :
    /\ <<u[i], u[i + 1]>> \in {<<"1", "9">>, <<"2", "0">>}
    /\ u[i + 2] \in Digits /\ u[i + 3] \in Digits

\* termKeyForUrl(u, electoratesByTerm): the archive of the term's election
\* year names the term, and with one term listed so does any other year.
termKeyForUrl(u) ==
  IF Includes(LowerAll(u), ResultsDir) \/ HasYear(u) THEN TermKey ELSE "term_unknown"

\* electorateFolderFor(termKey, url, electoratesByTerm) for the listed term:
\* /e1/ in the path, or the electorate's name in the URL.  (The file-name
\* patterns electorate-N, voting-place-N and *-N match none of the named URLs.)
electorateFolderFor(u) ==
  IF Includes(LowerAll(u), <<"/", "e", "1", "/">>) \/ Includes(LowerAll(u), ElectorateName)
  THEN ElectorateFolder ELSE ""

----------------------------------------------------------------------------
(* The state of each subsystem before anything has happened to it *)

\* The value of norm while the normalizer is not under study.
NormIdle == [x |-> <<>>, once |-> <<>>, twice |-> <<>>, stage |-> 0]

NormQuiet == norm = NormIdle

\* No withLock call has been made.
LockQuiet ==
  /\ chain = <<>>
  /\ lastWrite = [op |-> "none", section |-> 0]
  /\ overlap = FALSE

Levels == 1..MaxLevel

ArtKinds == {"urls", "files", "urls-diff", "urls-removed", "files-diff", "files-removed",
             "urls-parts", "remaining", "remaining-parts"}

\* <<kind, N>> is the file <kind>-level-N.json of the artifact directory.
ArtNames == ArtKinds \X (1..(MaxLevel + 1))

\* A file that does not exist (no artifact is ever written with no rows).
Absent == [rows |-> <<>>, ts |-> 0]

NoBucket == [exists |-> FALSE, lines |-> <<>>, done |-> FALSE, doneTs |-> 0]

NoBody == [level |-> 0, visited |-> <<>>, pages |-> <<>>, files |-> <<>>,
           update |-> TRUE, full |-> FALSE, prune |-> FALSE, replace |-> FALSE]

NoHist == [repeat |-> FALSE, onDone |-> FALSE, changed |-> FALSE,
           sameMain |-> TRUE, sameAll |-> TRUE]

\* defaultState(), an empty artifact directory, no run bucket.
FrontQuiet ==
  /\ levels = <<>>
  /\ art = [n \in ArtNames |-> Absent]
  /\ runs = [L \in Levels |-> NoBucket]
  /\ now = 0
  /\ lastReq = [op |-> "none", body |-> NoBody]
  /\ hist = NoHist
  /\ urlTable =
       [norm |-> [n \in UrlNames |-> NameOf(normalizeUrl(Chars[n]))],
        ext |-> [n \in UrlNames |->
                   CHOOSE e \in DOMAIN ExtChars : ExtChars[e] = extFromUrl(Chars[n])],
        term |-> [n \in UrlNames |-> termKeyForUrl(Chars[n])],
        elect |-> [n \in UrlNames |-> electorateFolderFor(Chars[n])]]

\* No hash record, an empty download tree, no manifest entry.
NoLast == [op |-> "none", kept |-> TRUE, missing |-> FALSE, acts |-> 0, would |-> 0,
           skips |-> 0, again |-> FALSE, conflict |-> "", level |-> 0]

UploadLevels == 1..MaxLevel

UpQuiet ==
  /\ idx = <<>>
  /\ disk = <<>>
  /\ manifest = [L \in UploadLevels |-> <<>>]
  /\ clock = 0
  /\ last = NoLast

\* The directories under RUNS_ROOT, in readdir order.
DomainOrder == <<"a", "b", "default">>

Domains == {DomainOrder[k] : k \in 1..Len(DomainOrder)}

StreamLevels == 1..MaxLevel

StreamUrls == {"p", "q"}

\* discover_level_<L>_<run_id>.jsonl and its .done sibling: absent.
NoJsonl == [exists |-> FALSE, lines |-> <<>>, mtime |-> 0, done |-> FALSE,
            by |-> "none", doneAt |-> 0]

StreamQuiet ==
  /\ buckets = [d \in Domains |-> [L \in StreamLevels |-> NoJsonl]]
  /\ dstate = [d \in Domains |-> [L \in StreamLevels |-> {}]]
  /\ dart = [d \in Domains |-> [L \in 1..(MaxLevel + 1) |-> {}]]
  /\ time = 0
  /\ ticked = 0
  /\ ops = 0

\* No request has been answered, no domain directory made, no file written.
ValQuiet ==
  /\ vstore = [dirs |-> {}, files |-> {}, n |-> 0]
  /\ resp = [op |-> "none", status |-> 0, changed |-> FALSE, bad |-> FALSE]

\* reconcileStateFromArtifacts has not been called.
RecQuiet == rebuilt = [done |-> FALSE, given |-> <<>>, written |-> <<>>, levels |-> <<>>]

MaxJsonWrites == 2   \* calls of writeJson in one behaviour

\* A path with no file.
NoJson == [exists |-> FALSE, data |-> <<>>]

\* No file at the target path and no temp file beside it.
NoJsonFiles == [target |-> NoJson, tmp |-> [n \in 1..MaxJsonWrites |-> NoJson]]

\* writeJson of the given version has not been called.
NoJsonCall(ver) ==
  [ver |-> ver, n |-> 0, at |-> "idle", data |-> <<>>, off |-> 0, prev |-> NoJson]

JsonQuiet == jfiles = NoJsonFiles /\ jcall = NoJsonCall("rename")

\* No bucket of the second run_id.
PartQuiet == parts = [L \in Levels |-> NoBucket]

\* No request yet, an empty bucket and an empty log.
OrderQuiet == reqs = <<>> /\ jsonl = <<>> /\ acks = <<>> /\ saves = <<>>

\* The watchdog has not run.
NoWdlog == [ticks |-> 0, errors |-> 0, alive |-> TRUE]

\* Every bucket can be read and the watchdog has not run.
FaultQuiet == unreadable = {} /\ wdlog = NoWdlog

----------------------------------------------------------------------------
(* lock.js and the handlers that call withLock *)

\* Handlers whose critical section is an async function (it awaits inside).
AsyncOps == {"runs/finalize/urls", "watchdog"}

\* Handlers that wrap their read-modify-write in withLock(...).
LockedOps == {"runs/start/urls", "runs/append/urls", "runs/finalize/urls",
              "runs/start/files", "runs/chunk/files", "upload/file", "watchdog"}

\* Handlers that change persistent state with no withLock call.
UnlockedOps == {"dedupe/level", "probe/meta", "meta/electorates"}

UsesLock(op) == op \in LockedOps

Running == {i \in 1..Len(chain) : chain[i].st = "running"}

\* A mutant: the chain advances when the previous section has begun, not settled
\* (next would not adopt the promise fn returns).
LockReadyNoAdopt(i) == IF i = 1 THEN TRUE ELSE chain[i - 1].st # "waiting"

\* A mutant: chain.then(run) with no rejection handler, and chain = next: a
\* section starts only after a section that fulfilled.
LockReadyFulfilled(i) ==
  IF i = 1 THEN TRUE ELSE chain[i - 1].st = "settled" /\ chain[i - 1].outcome = "ok"

\* A mutant: fn is started with no regard to the chain.
LockReadyUnchained(i) == TRUE

\* chain.then(run, run): section i starts once the previous `next` has settled,
\* fulfilled or rejected.
LockReady(i) == IF i = 1 THEN TRUE ELSE chain[i - 1].st = "settled"

\* withLock(fn): next = chain.then(run, run); chain = next.catch(() => {}).
withLock(op) ==
  /\ Len(chain) < MaxCalls
  /\ chain' = Append(chain, [op |-> op, st |-> "waiting", awaits |-> 0, outcome |-> "none"])
  /\ UNCHANGED <<lastWrite, overlap>> /\ UNCHANGED nonLockVars

HandlerCall ==
  \E op \in LockedOps : UsesLock(op) /\ withLock(op)

\* A synchronous critical section runs to completion in one microtask.
RunSync ==
  \E i \in 1..Len(chain), out \in {"ok", "threw"} :
    /\ chain[i].st = "waiting"
    /\ chain[i].op \notin AsyncOps
    /\ LockReady(i)
    /\ chain' = [chain EXCEPT ![i].st = "settled", ![i].outcome = out]
    /\ lastWrite' = IF out = "ok" THEN [op |-> chain[i].op, section |-> i] ELSE lastWrite
    /\ overlap' = (overlap \/ Running # {})
    /\ UNCHANGED nonLockVars

\* An async critical section starts and suspends at its first await.
BeginAsync ==
  \E i \in 1..Len(chain), n \in 1..MaxAwaits :
    /\ chain[i].st = "waiting"
    /\ chain[i].op \in AsyncOps
    /\ LockReady(i)
    /\ chain' = [chain EXCEPT ![i].st = "running", ![i].awaits = n]
    /\ overlap' = (overlap \/ Running # {})
    /\ UNCHANGED lastWrite /\ UNCHANGED nonLockVars

\* The awaited promise resolves and the section runs to its next await.
Resume ==
  \E i \in Running :
    /\ chain[i].awaits > 1
    /\ chain' = [chain EXCEPT ![i].awaits = @ - 1]
    /\ UNCHANGED <<lastWrite, overlap>> /\ UNCHANGED nonLockVars

\* After its last await the section does its synchronous writes and its promise settles.
Settle ==
  \E i \in Running, out \in {"ok", "threw"} :
    /\ chain[i].awaits = 1
    /\ chain' = [chain EXCEPT ![i].st = "settled", ![i].awaits = 0, ![i].outcome = out]
    /\ lastWrite' = IF out = "ok" THEN [op |-> chain[i].op, section |-> i] ELSE lastWrite
    /\ UNCHANGED overlap /\ UNCHANGED nonLockVars

\* /dedupe/level, /probe/meta, /meta/electorates: synchronous handlers that read,
\* modify and write persistent state with no withLock call.
UnlockedHandler ==
  \E op \in UnlockedOps :
    /\ ~UsesLock(op)
    /\ lastWrite' = [op |-> op, section |-> 0]
    /\ UNCHANGED <<chain, overlap>> /\ UNCHANGED nonLockVars

InitLock == LockQuiet /\ NormQuiet /\ FrontQuiet /\ UpQuiet /\ StreamQuiet /\ ValQuiet /\ RecQuiet /\ JsonQuiet /\ PartQuiet /\ OrderQuiet /\ FaultQuiet

NextLock == HandlerCall \/ RunSync \/ BeginAsync \/ Resume \/ Settle \/ UnlockedHandler

SpecLock == InitLock /\ [][NextLock]_vars

\* The microtask queue runs every callback that is ready, and every awaited
\* promise settles.
SpecLockFair ==
  /\ SpecLock
  /\ WF_vars(RunSync) /\ WF_vars(BeginAsync) /\ WF_vars(Resume) /\ WF_vars(Settle)

----------------------------------------------------------------------------
(* normalizeUrl applied once and twice to one input *)

\* normalizeUrl(x)
NormalizeOnce ==
  /\ norm.stage = 0
  /\ norm' = [norm EXCEPT !.once = normalizeUrl(norm.x), !.stage = 1]
  /\ UNCHANGED nonNormVars

\* normalizeUrl(normalizeUrl(x))
NormalizeTwice ==
  /\ norm.stage = 1
  /\ norm' = [norm EXCEPT !.twice = normalizeUrl(norm.once), !.stage = 2]
  /\ UNCHANGED nonNormVars

InitNorm ==
  /\ norm \in {[x |-> u, once |-> <<>>, twice |-> <<>>, stage |-> 0] : u \in NormInputs}
  /\ LockQuiet
  /\ FrontQuiet
  /\ UpQuiet
  /\ StreamQuiet
  /\ ValQuiet
  /\ RecQuiet
  /\ JsonQuiet
  /\ PartQuiet
  /\ OrderQuiet
  /\ FaultQuiet

NextNorm == NormalizeOnce \/ NormalizeTwice

SpecNorm == InitNorm /\ [][NextNorm]_vars


----------------------------------------------------------------------------
(* The frontier engine: lib/urlnorm.js, lib/dedupe.js, lib/state.js,
   lib/artifacts.js and the /dedupe/level handler.  null and a missing field
   are "". *)

\* normalizeUrl and extFromUrl on the named URLs.
NormOf == urlTable.norm
ExtOf == urlTable.ext

RECURSIVE UniqFrom(_, _)
UniqFrom(urls, seen) ==
  IF urls = <<>> THEN <<>>
  ELSE LET u == NormOf[Head(urls)]
       IN IF u \in seen THEN UniqFrom(Tail(urls), seen)
          ELSE <<u>> \o UniqFrom(Tail(urls), seen \cup {u})

stableUniqUrls(urls) == UniqFrom(urls, {})

\* (f.ext || extFromUrl(url) || "bin").toLowerCase()
ExtFor(ext, url) == LowerExt[IF ext # "" THEN ext ELSE ExtOf[url]]

\* The row mergeFilesPreferSource makes of one input file.
FileRow(f) ==
  LET url == NormOf[f.url]
  IN [url |-> url,
      ext |-> ExtFor(f.ext, url),
      source_page_url |-> IF f.source_page_url # "" THEN NormOf[f.source_page_url] ELSE ""]

\* byUrl.set(url, merged) for a url already in the map: a non-"bin" ext and a
\* non-null source win over "bin" and null, else the first value stays.
MergeRow(cur, new) ==
  [url |-> cur.url,
   ext |-> IF cur.ext = "bin" /\ new.ext # "bin" THEN new.ext ELSE cur.ext,
   source_page_url |-> IF cur.source_page_url = "" THEN new.source_page_url
                       ELSE cur.source_page_url]

\* The Map byUrl as a sequence in insertion order.
RECURSIVE MergeInto(_, _)
MergeInto(acc, files) ==
  IF files = <<>> THEN acc
  ELSE LET row == FileRow(Head(files))
           hit == {i \in 1..Len(acc) : acc[i].url = row.url}
       IN IF hit = {} THEN MergeInto(Append(acc, row), Tail(files))
          ELSE LET i == CHOOSE i \in hit : TRUE
               IN MergeInto([acc EXCEPT ![i] = MergeRow(acc[i], row)], Tail(files))

mergeFilesPreferSource(files) == MergeInto(<<>>, files)

\* computeSeenUpTo(st, maxLevelInclusive).seenPages
SeenPagesUpTo(lv, m) ==
  UNION {{NormOf[u] : u \in SeqToSet(lv[L].visited) \cup SeqToSet(lv[L].pages)} :
         L \in {K \in DOMAIN lv : K <= m}}

\* computeSeenUpTo(st, maxLevelInclusive).seenFiles
SeenFilesUpTo(lv, m) ==
  UNION {{NormOf[f.url] : f \in SeqToSet(lv[L].files)} :
         L \in {K \in DOMAIN lv : K <= m}}

\* filesOut.map(f => ({url, ext: (f.ext || extFromUrl(f.url) || "bin").toLowerCase(), source_page_url}))
ForArtifact(files) ==
  [i \in 1..Len(files) |->
     [url |-> files[i].url,
      ext |-> ExtFor(files[i].ext, files[i].url),
      source_page_url |-> files[i].source_page_url]]

\* The computation /dedupe/level and finalizeDiscoveryRun share once the
\* level's record is stored: the next frontier and the files of the level.
NextPages(lv, L) ==
  LET seen == SeenPagesUpTo(lv, L - 1) \cup SeqToSet(lv[L].visited)
  IN SelectSeq(lv[L].pages, LAMBDA u : u \notin seen)

FilesOut(lv, L) ==
  LET seen == SeenFilesUpTo(lv, L - 1)
  IN ForArtifact(SelectSeq(lv[L].files, LAMBDA f : f.url \notin seen))

\* diffByUrl on two lists of URL strings.
AddedUrls(old, new) == SelectSeq(new, LAMBDA u : u \notin SeqToSet(old))
RemovedUrls(old, new) == SelectSeq(old, LAMBDA u : u \notin SeqToSet(new))

\* diffByUrl on two lists of file rows.
AddedFiles(old, new) == SelectSeq(new, LAMBDA f : f.url \notin {g.url : g \in SeqToSet(old)})
RemovedFiles(old, new) == SelectSeq(old, LAMBDA f : f.url \notin {g.url : g \in SeqToSet(new)})

\* writeUrlArtifact, writeFileArtifact: no rows unlinks the file.
MainFile(rows) == [rows |-> rows, ts |-> 0]

\* writeRowListArtifact: the rows carry ts = new Date().toISOString(); no rows
\* unlinks the file.
RowListFile(rows, t) == IF rows = <<>> THEN Absent ELSE [rows |-> rows, ts |-> t]

\* The two main artifacts /dedupe/level writes for level L.
MainNames == {n \in ArtNames : n[1] \in {"urls", "files"}}
MainArt(a) == [n \in MainNames |-> a[n]]

F1 == [url |-> "f", ext |-> "", source_page_url |-> "afrag"]
F2 == [url |-> "f", ext |-> "PDF", source_page_url |-> ""]

\* The request bodies of POST /dedupe/level the model sends.
VisitedInputs == {<<>>, <<"b">>, <<"q">>}
PagesInputs == {<<>>, <<"afrag">>, <<"b", "a">>, <<"q">>}
FilesInputs == {<<>>, <<F1>>, <<F2>>}

\* update defaults to true; full and prune matter only with update.
Modes == {[update |-> FALSE, full |-> FALSE, prune |-> FALSE],
          [update |-> TRUE, full |-> FALSE, prune |-> FALSE],
          [update |-> TRUE, full |-> FALSE, prune |-> TRUE],
          [update |-> TRUE, full |-> TRUE, prune |-> FALSE]}

DedupeBodies ==
  {[level |-> L, visited |-> v, pages |-> p, files |-> f,
    update |-> m.update, full |-> m.full, prune |-> m.prune, replace |-> r] :
   L \in Levels, v \in VisitedInputs, p \in PagesInputs, f \in FilesInputs,
   m \in Modes, r \in BOOLEAN}

\* st.levels[String(level)] = {visited, pages, files}: merged into the stored
\* record unless replace is set or nothing is stored.
MergedLevels(body) ==
  LET L == body.level
      visited == stableUniqUrls(body.visited)
      pages == stableUniqUrls(body.pages)
      filesMerged == mergeFilesPreferSource(body.files)
      rec == IF ~body.replace /\ L \in DOMAIN levels
             THEN [visited |-> stableUniqUrls(levels[L].visited \o visited),
                   pages |-> stableUniqUrls(levels[L].pages \o pages),
                   files |-> mergeFilesPreferSource(levels[L].files \o filesMerged)]
             ELSE [visited |-> visited, pages |-> pages, files |-> filesMerged]
  IN (L :> rec) @@ levels

\* The artifact directory after the handler's writes.
DedupeArtifacts(body, lv, t) ==
  LET L == body.level
      nextPages == NextPages(lv, L)
      filesForArtifact == FilesOut(lv, L)
      oldUrls == art[<<"urls", L + 1>>].rows
      oldFiles == art[<<"files", L>>].rows
      addedUrls == AddedUrls(oldUrls, nextPages)
      removedUrls == RemovedUrls(oldUrls, nextPages)
      addedFiles == AddedFiles(oldFiles, filesForArtifact)
      removedFiles == RemovedFiles(oldFiles, filesForArtifact)
      patchedUrls == LET all == stableUniqUrls(oldUrls \o addedUrls)
                     IN IF body.prune
                        THEN SelectSeq(all, LAMBDA u : u \notin SeqToSet(removedUrls))
                        ELSE all
      patchedFiles == LET all == mergeFilesPreferSource(oldFiles \o addedFiles)
                      IN IF body.prune
                         THEN SelectSeq(all, LAMBDA f :
                                f.url \notin {g.url : g \in SeqToSet(removedFiles)})
                         ELSE all
      patchArtifacts == body.update /\ ~body.full
      withDiffs == IF body.update
                   THEN [art EXCEPT ![<<"urls-diff", L + 1>>] = RowListFile(addedUrls, t),
                                    ![<<"urls-removed", L + 1>>] = RowListFile(removedUrls, t),
                                    ![<<"files-diff", L>>] = RowListFile(addedFiles, t),
                                    ![<<"files-removed", L>>] = RowListFile(removedFiles, t)]
                   ELSE art
  IN [withDiffs EXCEPT
        ![<<"urls", L + 1>>] = MainFile(IF patchArtifacts THEN patchedUrls ELSE nextPages),
        ![<<"files", L>>] = MainFile(IF patchArtifacts THEN ForArtifact(patchedFiles)
                                     ELSE filesForArtifact)]

\* POST /dedupe/level with a body of the given set, while the clock is below max.
DedupeLevelOf(bodies, max) ==
  \E body \in bodies :
    /\ now < max
    /\ LET lv == MergedLevels(body)
           a == DedupeArtifacts(body, lv, now + 1)
       IN /\ levels' = lv
          /\ art' = a
          /\ hist' = [repeat |-> lastReq = [op |-> "dedupe", body |-> body],
                      onDone |-> FALSE,
                      changed |-> (lv # levels \/ a # art),
                      sameMain |-> MainArt(a) = MainArt(art),
                      sameAll |-> a = art]
    /\ now' = now + 1
    /\ lastReq' = [op |-> "dedupe", body |-> body]
    /\ UNCHANGED <<runs, urlTable>>
    /\ UNCHANGED nonFrontVars

DedupeLevel == DedupeLevelOf(DedupeBodies, MaxRequests)

InitDedupe == FrontQuiet /\ LockQuiet /\ NormQuiet /\ UpQuiet /\ StreamQuiet /\ ValQuiet /\ RecQuiet /\ JsonQuiet /\ PartQuiet /\ OrderQuiet /\ FaultQuiet

NextDedupe == DedupeLevel

SpecDedupe == InitDedupe /\ [][NextDedupe]_vars

----------------------------------------------------------------------------
(* routes/runs.js: the streaming run buckets of one domain and one run_id *)

MaxRunOps == 5   \* requests in one behaviour of the streaming specification

\* The bodies of /runs/append/urls the model sends (besides level and run_id).
AppendLines ==
  {[visited |-> <<"b">>, pages |-> <<"afrag">>, files |-> <<>>],
   [visited |-> <<>>, pages |-> <<"b", "a">>, files |-> <<F1>>],
   [visited |-> <<>>, pages |-> <<"q">>, files |-> <<F2>>]}

\* The /dedupe/level bodies sent between streaming requests.
RunDedupeBodies ==
  {[level |-> L, visited |-> <<>>, pages |-> p, files |-> <<>>,
    update |-> TRUE, full |-> f, prune |-> FALSE, replace |-> FALSE] :
   L \in Levels, p \in {<<"b">>, <<"q">>}, f \in BOOLEAN}

\* Set insertion order: the first occurrence of each element.
RECURSIVE FirstOccurrences(_, _)
FirstOccurrences(q, seen) ==
  IF q = <<>> THEN <<>>
  ELSE IF Head(q) \in seen THEN FirstOccurrences(Tail(q), seen)
  ELSE <<Head(q)>> \o FirstOccurrences(Tail(q), seen \cup {Head(q)})

RECURSIVE Flatten(_)
Flatten(qs) == IF qs = <<>> THEN <<>> ELSE Head(qs) \o Flatten(Tail(qs))

\* files.set(f.url, prev ? {...prev, ...f} : {...f}): the fields f carries win.
RECURSIVE SpreadInto(_, _)
SpreadInto(acc, files) ==
  IF files = <<>> THEN acc
  ELSE LET f == Head(files)
           hit == {i \in 1..Len(acc) : acc[i].url = f.url}
       IN IF hit = {} THEN SpreadInto(Append(acc, f), Tail(files))
          ELSE LET i == CHOOSE i \in hit : TRUE
                   merged == [url |-> f.url,
                              ext |-> IF f.ext # "" THEN f.ext ELSE acc[i].ext,
                              source_page_url |-> IF f.source_page_url # ""
                                                  THEN f.source_page_url
                                                  ELSE acc[i].source_page_url]
               IN SpreadInto([acc EXCEPT ![i] = merged], Tail(files))

\* readDiscoveryJsonl(p): a missing file reads as no lines.
readDiscoveryJsonl(bucket) ==
  LET ls == IF bucket.exists THEN bucket.lines ELSE <<>>
  IN [visited |-> FirstOccurrences(Flatten([i \in 1..Len(ls) |-> ls[i].visited]), {}),
      pages |-> FirstOccurrences(Flatten([i \in 1..Len(ls) |-> ls[i].pages]), {}),
      files |-> SpreadInto(<<>>, Flatten([i \in 1..Len(ls) |-> ls[i].files]))]

\* What the last request did, for a request that is no /dedupe/level.
HistOf(lv, a, onDone) ==
  [repeat |-> FALSE, onDone |-> onDone, changed |-> (lv # levels \/ a # art),
   sameMain |-> MainArt(a) = MainArt(art), sameAll |-> a = art]

\* POST /runs/start/urls: the bucket is truncated and its .done marker removed.
RunsStart ==
  \E L \in Levels :
    /\ now < MaxRunOps
    /\ runs' = [runs EXCEPT ![L] = [exists |-> TRUE, lines |-> <<>>, done |-> FALSE, doneTs |-> 0]]
    /\ now' = now + 1
    /\ lastReq' = [op |-> "start", body |-> [NoBody EXCEPT !.level = L]]
    /\ hist' = HistOf(levels, art, FALSE)
    /\ UNCHANGED <<levels, art, urlTable>>
    /\ UNCHANGED nonFrontVars

\* POST /runs/append/urls: one JSONL line is appended, whatever the marker says.
RunsAppend ==
  \E L \in Levels, line \in AppendLines :
    /\ now < MaxRunOps
    /\ runs' = [runs EXCEPT ![L].exists = TRUE, ![L].lines = Append(@, line)]
    /\ now' = now + 1
    /\ lastReq' = [op |-> "append",
                   body |-> [NoBody EXCEPT !.level = L, !.visited = line.visited,
                                           !.pages = line.pages, !.files = line.files]]
    /\ hist' = HistOf(levels, art, FALSE)
    /\ UNCHANGED <<levels, art, urlTable>>
    /\ UNCHANGED nonFrontVars

\* finalizeDiscoveryRun, state: the level's record is replaced by the bucket's.
FinalizedLevelsOf(bucket, L) ==
  LET acc == readDiscoveryJsonl(bucket)
      rec == [visited |-> stableUniqUrls(acc.visited),
              pages |-> stableUniqUrls(acc.pages),
              files |-> mergeFilesPreferSource(acc.files)]
  IN (L :> rec) @@ levels

FinalizedLevels(L) == FinalizedLevelsOf(runs[L], L)

\* writeChunkedUrls: the part files and their manifest; nothing is written or
\* removed for an empty list (one part, the lists being shorter than a chunk).
ChunkedFile(old, urls) == IF urls = <<>> THEN old ELSE MainFile(urls)

\* finalizeDiscoveryRun, artifacts: the main artifacts are overwritten, the
\* next level's list is chunked, and what remains of this level's input list
\* is written with its chunks.
FinalizedArtifacts(L, lv) ==
  LET nextPages == NextPages(lv, L)
      inputUrls == art[<<"urls", L>>].rows
      remaining == SelectSeq(stableUniqUrls(inputUrls),
                             LAMBDA u : u \notin SeqToSet(lv[L].visited))
  IN [art EXCEPT
        ![<<"urls", L + 1>>] = MainFile(nextPages),
        ![<<"files", L>>] = MainFile(FilesOut(lv, L)),
        ![<<"urls-parts", L + 1>>] = ChunkedFile(@, nextPages),
        ![<<"remaining", L>>] = MainFile(remaining),
        ![<<"remaining-parts", L>>] = ChunkedFile(@, remaining)]

\* POST /runs/finalize/urls: withLock(async () => finalizeDiscoveryRun(...)).
\* The only await precedes loadState, so the section acts on the state as it
\* is when the bucket has been read.
RunsFinalize ==
  \E L \in Levels :
    /\ now < MaxRunOps
    /\ LET lv == FinalizedLevels(L)
           a == FinalizedArtifacts(L, lv)
       IN /\ levels' = lv
          /\ art' = a
          /\ hist' = HistOf(lv, a, runs[L].done)
    /\ runs' = [runs EXCEPT ![L].done = TRUE, ![L].doneTs = now + 1]
    /\ now' = now + 1
    /\ lastReq' = [op |-> "finalize", body |-> [NoBody EXCEPT !.level = L]]
    /\ UNCHANGED urlTable
    /\ UNCHANGED nonFrontVars

\* POST /dedupe/level between the streaming requests.
RunsDedupe == DedupeLevelOf(RunDedupeBodies, MaxRunOps)

InitRuns == FrontQuiet /\ LockQuiet /\ NormQuiet /\ UpQuiet /\ StreamQuiet /\ ValQuiet /\ RecQuiet /\ JsonQuiet /\ PartQuiet /\ OrderQuiet /\ FaultQuiet

NextRuns == RunsStart \/ RunsAppend \/ RunsFinalize \/ RunsDedupe

SpecRuns == InitRuns /\ [][NextRuns]_vars

----------------------------------------------------------------------------
(* Two run buckets of one level: discover_level_L_<run_id>.jsonl for a second
   run_id beside the first *)

MaxPartOps == 4   \* requests in one behaviour of the two-run specification

\* What the two-run requests leave alone.
nonRunVars == <<lockVars, normVars, upVars, streamVars, valVars, recVars, jsonVars, orderVars, faultVars>>
nonOrderVars == <<lockVars, normVars, frontVars, upVars, streamVars, valVars, recVars, jsonVars, partVars, faultVars>>
nonFaultVars == <<lockVars, normVars, frontVars, upVars, streamVars, valVars, recVars, jsonVars, partVars, orderVars>>

\* POST /runs/append/urls with the second run_id.
PartAppend ==
  \E L \in Levels, line \in AppendLines :
    /\ now < MaxPartOps
    /\ parts' = [parts EXCEPT ![L].exists = TRUE, ![L].lines = Append(@, line)]
    /\ now' = now + 1
    /\ lastReq' = [op |-> "append2",
                   body |-> [NoBody EXCEPT !.level = L, !.visited = line.visited,
                                           !.pages = line.pages, !.files = line.files]]
    /\ hist' = HistOf(levels, art, FALSE)
    /\ UNCHANGED <<levels, art, runs, urlTable>>
    /\ UNCHANGED nonRunVars

\* POST /runs/finalize/urls with the second run_id.
PartFinalize ==
  \E L \in Levels :
    /\ now < MaxPartOps
    /\ LET lv == FinalizedLevelsOf(parts[L], L)
           a == FinalizedArtifacts(L, lv)
       IN /\ levels' = lv
          /\ art' = a
          /\ hist' = HistOf(lv, a, parts[L].done)
    /\ parts' = [parts EXCEPT ![L].done = TRUE, ![L].doneTs = now + 1]
    /\ now' = now + 1
    /\ lastReq' = [op |-> "finalize2", body |-> [NoBody EXCEPT !.level = L]]
    /\ UNCHANGED <<runs, urlTable>>
    /\ UNCHANGED nonRunVars

\* The requests of the first run_id, while the requests are fewer than MaxPartOps.
FirstRun == now < MaxPartOps /\ (RunsAppend \/ RunsFinalize)

NextParts == FirstRun \/ PartAppend \/ PartFinalize

SpecParts == InitRuns /\ [][NextParts]_vars

----------------------------------------------------------------------------
(* lib/state.js: reconcileStateFromArtifacts, the state rebuilt from the
   artifact directory *)

MaxReconcileOps == 4   \* requests before the calls of reconcileStateFromArtifacts

\* The named URLs in the order Array.prototype.sort() gives their strings
\* (UTF-16 code units: "%" < ";" < "?" < "a" < "b" < "e" < "f", a prefix first).
JsOrder == <<"q2", "q1", "q", "a", "afrag", "b", "s", "e", "f">>

\* [...new Set(urls)].sort()
UniqSorted(urls) == SelectSeq(JsOrder, LAMBDA u : u \in SeqToSet(urls))

\* fs.existsSync of an artifact file; no file is named beyond level MaxLevel + 1.
ArtExists(a, n) == n \in ArtNames /\ a[n] # Absent

ArtRows(a, n) == IF ArtExists(a, n) THEN a[n].rows ELSE <<>>

\* _listMaxLevelFromArtifacts: the largest N with a file urls-level-N.json, else 0.
listMaxLevelFromArtifacts(a) ==
  LET P == {N \in 1..(MaxLevel + 1) : ArtExists(a, <<"urls", N>>)}
  IN IF P = {} THEN 0 ELSE CHOOSE N \in P : \A M \in P : M <= N

\* _extractUrlsFromArtifact: normalizeUrl of each row's url.
extractUrlsFromArtifact(rows) == [i \in 1..Len(rows) |-> NormOf[rows[i]]]

\* _extractFilesFromArtifact: {url: normalizeUrl(url), ext || null, source_page_url || null}
extractFilesFromArtifact(rows) ==
  [i \in 1..Len(rows) |->
     [url |-> NormOf[rows[i].url], ext |-> rows[i].ext,
      source_page_url |-> rows[i].source_page_url]]

\* The record the loop stores for a level L whose urls-level-L.json exists.
ReconciledLevel(st, a, L) ==
  LET fullUrls == extractUrlsFromArtifact(ArtRows(a, <<"urls", L>>))
      remUrls == SeqToSet(extractUrlsFromArtifact(ArtRows(a, <<"remaining", L>>)))
      visitedUrls == IF ArtExists(a, <<"remaining", L>>)
                     THEN SelectSeq(fullUrls, LAMBDA u : u \notin remUrls)
                     ELSE IF L \in DOMAIN st
                          THEN [i \in 1..Len(st[L].visited) |-> NormOf[st[L].visited[i]]]
                          ELSE <<>>
      pagesUrls == extractUrlsFromArtifact(ArtRows(a, <<"urls", L + 1>>))
      files == extractFilesFromArtifact(ArtRows(a, <<"files", L>>))
  IN [visited |-> UniqSorted(visitedUrls), pages |-> UniqSorted(pagesUrls), files |-> files]

\* next.levels after the loop over 1..maxLevel: a level without its
\* urls-level-L.json keeps the record st had, if any.
reconcileStateFromArtifacts(st, a) ==
  LET found == {L \in 1..listMaxLevelFromArtifacts(a) : ArtExists(a, <<"urls", L>>)}
  IN [L \in DOMAIN st \cup found |->
        IF L \in found THEN ReconciledLevel(st, a, L) ELSE st[L]]

\* A call of reconcileStateFromArtifacts on the artifact directory, given the
\* state.json the engine wrote or the default state.
Reconcile ==
  \E st \in {levels, <<>>} :
    /\ rebuilt' = [done |-> TRUE, given |-> st, written |-> levels,
                   levels |-> reconcileStateFromArtifacts(st, art)]
    /\ UNCHANGED nonRecVars

\* The requests of the streaming specification, then calls of
\* reconcileStateFromArtifacts on what they left.
ReconcileRequest == ~rebuilt.done /\ now < MaxReconcileOps /\ NextRuns

NextReconcile == ReconcileRequest \/ Reconcile

SpecReconcile == InitRuns /\ [][NextReconcile]_vars

----------------------------------------------------------------------------
(* lib/fsx.js: writeJson, step by step, in a process that can stop at any
   step.  The source tree holds two versions of the function: the one of
   src/lib/fsx.js writes the target path directly, the other writes a temp
   file beside it and renames it over the target.  writeFileSync is open with
   truncation, a loop of writes, close; a write is one character here. *)

\* JSON.stringify(obj, null, 2) of the objects written, as characters.
Docs == {<<"{", "}">>, <<"[", "]">>, <<"{", "a", "}">>}

\* A file holding all of data.
Full(data) == [exists |-> TRUE, data |-> data]

\* The path writeFileSync is given: p itself, or the temp file of this call.
Written(f, c) == IF c.ver = "direct" THEN f.target ELSE f.tmp[c.n]

SetWritten(f, c, file) ==
  IF c.ver = "direct" THEN [f EXCEPT !.target = file]
  ELSE [f EXCEPT !.tmp[c.n] = file]

\* writeJson(p, obj) up to fs.openSync(path, "w"): the file is created, or
\* truncated when it exists.
WriteJsonOpen ==
  \E data \in Docs :
    /\ jcall.at = "idle"
    /\ jcall.n < MaxJsonWrites
    /\ LET c == [jcall EXCEPT !.n = @ + 1, !.at = "opened", !.data = data, !.off = 0,
                              !.prev = jfiles.target]
       IN /\ jcall' = c
          /\ jfiles' = SetWritten(jfiles, c, Full(<<>>))
    /\ UNCHANGED nonJsonVars

\* One fs.writeSync of the loop in writeFileSync.
WriteJsonChunk ==
  /\ jcall.at = "opened"
  /\ jcall.off < Len(jcall.data)
  /\ jfiles' = SetWritten(jfiles, jcall,
                  Full(Append(Written(jfiles, jcall).data, jcall.data[jcall.off + 1])))
  /\ jcall' = [jcall EXCEPT !.off = @ + 1]
  /\ UNCHANGED nonJsonVars

\* fs.closeSync: writeFileSync returns; the direct version has returned too.
WriteJsonClose ==
  /\ jcall.at = "opened"
  /\ jcall.off = Len(jcall.data)
  /\ jcall' = [jcall EXCEPT !.at = IF jcall.ver = "direct" THEN "idle" ELSE "written"]
  /\ UNCHANGED jfiles
  /\ UNCHANGED nonJsonVars

\* fs.renameSync(tmp, p)
WriteJsonRename ==
  /\ jcall.at = "written"
  /\ jfiles' = [jfiles EXCEPT !.target = jfiles.tmp[jcall.n], !.tmp[jcall.n] = NoJson]
  /\ jcall' = [jcall EXCEPT !.at = "idle"]
  /\ UNCHANGED nonJsonVars

\* The process stops (kill, crash) inside writeJson; the files stay as they are.
ProcessStop ==
  /\ jcall.at \in {"opened", "written"}
  /\ jcall' = [jcall EXCEPT !.at = "stopped"]
  /\ UNCHANGED jfiles
  /\ UNCHANGED nonJsonVars

\* The server is started again.
ProcessStart ==
  /\ jcall.at = "stopped"
  /\ jcall' = [jcall EXCEPT !.at = "idle"]
  /\ UNCHANGED jfiles
  /\ UNCHANGED nonJsonVars

InitJson ==
  /\ LockQuiet /\ NormQuiet /\ FrontQuiet /\ UpQuiet /\ StreamQuiet /\ ValQuiet /\ RecQuiet /\ PartQuiet /\ OrderQuiet /\ FaultQuiet
  /\ jfiles = NoJsonFiles
  /\ jcall \in {NoJsonCall(ver) : ver \in {"direct", "rename"}}

NextJson ==
  WriteJsonOpen \/ WriteJsonChunk \/ WriteJsonClose \/ WriteJsonRename
    \/ ProcessStop \/ ProcessStart

SpecJson == InitJson /\ [][NextJson]_vars

----------------------------------------------------------------------------
(* The content-hash registry: lib/routing.js, lib/pdfguard.js and the
   /upload/file handler.  null and a missing field are "".  A path is its
   directory below the downloads root and the parts of its file name
   stem[__suffix]*.ext. *)

MaxUploads == 4         \* /upload/file requests in one behaviour
MaxUploadDedupes == 1   \* /dedupe/level requests between them

\* The bodies uploaded: two PDF files and an HTML page.
Bytes ==
  [pdfX |-> <<"%", "P", "D", "F", "-", "x">>,
   pdfY |-> <<"%", "P", "D", "F", "-", "y">>,
   html |-> <<"<", "h", "t", "m", "l", ">">>]

\* crypto.createHash("sha256").update(buf).digest("hex"): one digest per body.
sha256 == [pdfX |-> "shaX", pdfY |-> "shaY", html |-> "shaH"]

sniffIsPdf(buf) == Len(buf) >= 5 /\ SubSeq(buf, 1, 5) = <<"%", "P", "D", "F", "-">>

\* The head of the body starts with <html or <!doctype html, or holds <head or <title.
looksLikeHtml(buf) ==
  \/ MatchAt(LowerAll(buf), <<"<", "h", "t", "m", "l">>, FALSE)
  \/ MatchAt(LowerAll(buf), <<"<", "!", "d", "o", "c", "t", "y", "p", "e", " ", "h", "t", "m", "l">>, FALSE)
  \/ Includes(LowerAll(buf), <<"<", "h", "e", "a", "d">>)
  \/ Includes(LowerAll(buf), <<"<", "t", "i", "t", "l", "e">>)

\* The URL, source pages and levels of the uploads.
UploadUrls == {"f"}
SourcePages == {"", "s", "e"}

NoFile == [stem |-> "", sfx |-> <<>>, ext |-> ""]

\* filenameFromUrl(fileUrl): the basename of the path.
filenameFromUrl == [f |-> [stem |-> "f", sfx |-> <<>>, ext |-> "pdf"]]

TermOf == urlTable.term
ElectOf == urlTable.elect

PathOf(dir, file) == [dir |-> dir, stem |-> file.stem, sfx |-> file.sfx, ext |-> file.ext]

\* path.basename(p)
Basename(p) == [stem |-> p.stem, sfx |-> p.sfx, ext |-> p.ext]

resolveSavePath(url, ext, source_page_url, filenameOverride) ==
  LET fileUrl == NormOf[url]
      sourceUrl == IF source_page_url # "" THEN NormOf[source_page_url] ELSE ""
      inferredExt == LowerExt[IF ext # "" THEN ext ELSE ExtOf[fileUrl]]
      termKey == IF TermOf[fileUrl] = "term_unknown" /\ sourceUrl # ""
                 THEN TermOf[sourceUrl] ELSE TermOf[fileUrl]
      electorateFolder ==
        IF termKey = "term_unknown" THEN ""
        ELSE IF ElectOf[fileUrl] = "" /\ sourceUrl # "" THEN ElectOf[sourceUrl]
        ELSE ElectOf[fileUrl]
      termDir == <<termKey>>
      finalDir == IF electorateFolder # "" THEN <<termKey, electorateFolder>> ELSE termDir
      filename == IF filenameOverride # NoFile THEN filenameOverride
                  ELSE filenameFromUrl[fileUrl]
  IN [termKey |-> termKey, electorateFolder |-> electorateFolder, termDir |-> termDir,
      finalDir |-> finalDir, filename |-> filename, outPath |-> PathOf(finalDir, filename),
      ext |-> inferredExt]

\* route.ext === "pdf" || route.filename.toLowerCase().endsWith(".pdf")
ShouldBePdf(route) == route.ext = "pdf" \/ LowerExt[route.filename.ext] = "pdf"

\* path.join(route.termDir, "_bad", `${base}__${note}.html`), base being the
\* file name less its .pdf.
BadPath(route, note) ==
  [dir |-> route.termDir \o <<"_bad">>, stem |-> route.filename.stem,
   sfx |-> Append(route.filename.sfx, [kind |-> "note", n |-> 0, note |-> note]),
   ext |-> "html"]

\* Where the bytes go: the routed path, or the quarantine of the term.
GuardedPath(route, buf, notes) ==
  IF ShouldBePdf(route) /\ ~sniffIsPdf(buf)
  THEN LET note == IF looksLikeHtml(buf) THEN notes.html ELSE notes.other
       IN [path |-> BadPath(route, note), note |-> note]
  ELSE [path |-> route.outPath, note |-> notes.ok]

SaveNotes == [ok |-> "ok", html |-> "bad_pdf_got_html", other |-> "bad_pdf_not_pdf"]
PromoteNotes == [ok |-> "promoted_to_electorate", html |-> "promoted_bad_pdf_got_html",
                 other |-> "promoted_bad_pdf_not_pdf"]

\* fs.renameSync(old, new): the file at new, if any, is replaced.
Rename(d, old, new) ==
  [p \in (DOMAIN d \ {old}) \cup {new} |-> IF p = new THEN d[old] ELSE d[p]]

\* fs.writeFileSync(p, buf)
WriteFile(d, p, b) == [q \in DOMAIN d \cup {p} |-> IF q = p THEN b ELSE d[q]]

\* fs.unlinkSync(p)
Unlink(d, p) == [q \in DOMAIN d \ {p} |-> d[q]]

\* The (url, source_page_url, level) triples of a source list.
Triples(sources) ==
  {<<sources[i].url, sources[i].source_page_url, sources[i].level>> : i \in 1..Len(sources)}

addSourceObservation(rec, obs) ==
  IF <<obs.url, obs.source_page_url, obs.level>> \in Triples(rec.sources) THEN rec
  ELSE [rec EXCEPT !.sources = Append(@, obs)]

appendToLevelManifest(m, level, entry) ==
  IF entry \in SeqToSet(m[level]) THEN m ELSE [m EXCEPT ![level] = Append(@, entry)]

\* The position of sha's record in the index, 0 if it has none.
IndexOfSha(ix, sha) ==
  IF \E i \in 1..Len(ix) : ix[i].sha256 = sha
  THEN CHOOSE i \in 1..Len(ix) : ix[i].sha256 = sha ELSE 0

\* The branch "already saved and the file is there": the file is promoted into
\* the electorate folder when the record has none, and the observation and
\* the manifest entry are added.
UploadExisting(i, b, route, obs) ==
  LET existing == idx[i]
      promote == route.electorateFolder # "" /\ existing.electorateFolder = ""
      target == GuardedPath(route, Bytes[b], PromoteNotes)
      moved == IF promote
               THEN [existing EXCEPT !.saved_to = target.path, !.termKey = route.termKey,
                                     !.electorateFolder = route.electorateFolder,
                                     !.ext = route.ext, !.note = target.note]
               ELSE existing
      rec == addSourceObservation([moved EXCEPT !.last_seen_ts = obs.ts], obs)
  IN [idx |-> [idx EXCEPT ![i] = rec],
      disk |-> IF promote THEN Rename(disk, existing.saved_to, target.path) ELSE disk,
      manifest |-> appendToLevelManifest(manifest, obs.level,
                     [sha256 |-> rec.sha256, saved_to |-> rec.saved_to])]

\* The branch "save new canonical file", taken as well when the record exists
\* and its file is missing: the bytes are written and idx[sha256] is assigned
\* a fresh record.
UploadNew(i, b, route, obs) ==
  LET out == GuardedPath(route, Bytes[b], SaveNotes)
      rec == [sha256 |-> sha256[b], saved_to |-> out.path, ext |-> route.ext,
              termKey |-> route.termKey, electorateFolder |-> route.electorateFolder,
              last_seen_ts |-> obs.ts, first_seen_ts |-> obs.ts,
              sources |-> <<obs>>, note |-> out.note]
  IN [idx |-> IF i = 0 THEN Append(idx, rec) ELSE [idx EXCEPT ![i] = rec],
      disk |-> WriteFile(disk, out.path, b),
      manifest |-> appendToLevelManifest(manifest, obs.level,
                     [sha256 |-> rec.sha256, saved_to |-> rec.saved_to])]

\* Every record of before is a record of after whose sources hold each
\* observation the record had.
SourcesKept(before, after) ==
  \A i \in 1..Len(before) :
    \E j \in 1..Len(after) :
      /\ after[j].sha256 = before[i].sha256
      /\ Triples(before[i].sources) \subseteq Triples(after[j].sources)

\* POST /upload/file with a valid body, the whole critical section; at most
\* max requests are sent, their bytes being among bodies.
\* The critical section of POST /upload/file on the body (b, url, sp, L): the
\* registry, the tree and the manifests it leaves.
UploadOutcome(b, url, sp, L) ==
  LET i == IndexOfSha(idx, sha256[b])
      route == resolveSavePath(url, "", sp, NoFile)
      obs == [url |-> url, source_page_url |-> sp, level |-> L, ts |-> clock + 1]
      there == IF i = 0 THEN FALSE ELSE idx[i].saved_to \in DOMAIN disk
  IN IF there THEN UploadExisting(i, b, route, obs) ELSE UploadNew(i, b, route, obs)

UploadFileOf(bodies, max) ==
  \E b \in bodies, url \in UploadUrls, sp \in SourcePages, L \in UploadLevels :
    /\ clock < max
    /\ LET i == IndexOfSha(idx, sha256[b])
           there == IF i = 0 THEN FALSE ELSE idx[i].saved_to \in DOMAIN disk
           out == UploadOutcome(b, url, sp, L)
       IN /\ idx' = out.idx
          /\ disk' = out.disk
          /\ manifest' = out.manifest
          /\ last' = [NoLast EXCEPT !.op = "upload", !.kept = SourcesKept(idx, out.idx),
                                    !.missing = (i # 0 /\ ~there)]
    /\ clock' = clock + 1
    /\ UNCHANGED nonUpVars

UploadFile == UploadFileOf(DOMAIN Bytes, MaxUploads)

\* The /dedupe/level requests that write files-level-L.json between uploads.
UploadDedupeBodies ==
  {[level |-> L, visited |-> <<>>, pages |-> <<>>, files |-> <<F1>>,
    update |-> TRUE, full |-> TRUE, prune |-> FALSE, replace |-> FALSE] : L \in Levels}

UploadDedupe == DedupeLevelOf(UploadDedupeBodies, MaxUploadDedupes)

InitUpload == UpQuiet /\ FrontQuiet /\ LockQuiet /\ NormQuiet /\ StreamQuiet /\ ValQuiet /\ RecQuiet /\ JsonQuiet /\ PartQuiet /\ OrderQuiet /\ FaultQuiet

NextUpload == UploadFile \/ UploadDedupe

SpecUpload == InitUpload /\ [][NextUpload]_vars

\* The same files uploaded again and again: the two PDF bodies, no
\* /dedupe/level in between.
MaxReuploads == 5

Reupload == UploadFileOf({"pdfX", "pdfY"}, MaxReuploads)

SpecReupload == InitUpload /\ [][Reupload]_vars

----------------------------------------------------------------------------
(* Requests of several clients that reach the sink together: the handlers of
   /runs/append/urls, /upload/file and /runs/finalize/urls call withLock in the
   order they were entered, and the critical sections run off the promise
   chain.  The appends name one level and one run_id.  A character of the
   bucket file is a one-character string, the line feed is written "LF". *)

MaxOrderCalls == 3   \* withLock calls in one behaviour of the call-order specification

Clients == {"c1", "c2"}

\* The URL strings the appended records carry: plain, holding a line feed,
\* holding a backslash.
JsonlUrls == {<<"a">>, <<"a", "LF", "b">>, <<"\\", "n">>}

NoReq == [op |-> "", client |-> "c1", url |-> <<>>, b |-> "", name |-> "", sp |-> "", level |-> 0]

\* The requests the clients send.
OrderBodies ==
  {[NoReq EXCEPT !.op = "runs/append/urls", !.client = c, !.url = u] :
     c \in Clients, u \in JsonlUrls}
  \cup {[NoReq EXCEPT !.op = "upload/file", !.b = b, !.name = n, !.sp = sp, !.level = L] :
          b \in {"pdfX", "pdfY"}, n \in UploadUrls, sp \in SourcePages, L \in UploadLevels}
  \cup {[NoReq EXCEPT !.op = "runs/finalize/urls"]}

\* A mutant: the characters are written as they are.
EscapeNone(c) == <<c>>

\* JSON.stringify on one character of a string: the line feed and the
\* backslash are escaped.
Escape(c) ==
  IF c = "LF" THEN <<"\\", "n">> ELSE IF c = "\\" THEN <<"\\", "\\">> ELSE <<c>>

RECURSIVE EscapeAll(_)
EscapeAll(str) == IF str = <<>> THEN <<>> ELSE Escape(Head(str)) \o EscapeAll(Tail(str))

\* JSON.stringify(payload): the object around the escaped string.
stringify(url) == <<"{">> \o EscapeAll(url) \o <<"}">>

\* appendJsonl(p, obj): fs.appendFileSync(p, JSON.stringify(obj) + "\n")
appendJsonl(file, url) == file \o stringify(url) \o <<"LF">>

\* readline: the pieces between line feeds, the last one when it is not empty.
RECURSIVE SplitLines(_, _)
SplitLines(file, cur) ==
  IF file = <<>> THEN (IF cur = <<>> THEN <<>> ELSE <<cur>>)
  ELSE IF Head(file) = "LF" THEN <<cur>> \o SplitLines(Tail(file), <<>>)
  ELSE SplitLines(Tail(file), Append(cur, Head(file)))

NoParse == [ok |-> FALSE, url |-> <<>>]

\* The string between the braces, its escapes undone; a backslash before
\* anything but n or a backslash does not parse.
RECURSIVE Unescape(_)
Unescape(str) ==
  IF str = <<>> THEN [ok |-> TRUE, url |-> <<>>]
  ELSE IF Head(str) # "\\"
  THEN LET rest == Unescape(Tail(str))
       IN IF rest.ok THEN [ok |-> TRUE, url |-> <<Head(str)>> \o rest.url] ELSE NoParse
  ELSE IF Len(str) < 2 \/ str[2] \notin {"n", "\\"} THEN NoParse
  ELSE LET rest == Unescape(Tail(Tail(str)))
           c == IF str[2] = "n" THEN "LF" ELSE "\\"
       IN IF rest.ok THEN [ok |-> TRUE, url |-> <<c>> \o rest.url] ELSE NoParse

\* JSON.parse(line) in readDiscoveryJsonl: a line that is no object is skipped.
JsonParse(line) ==
  IF Len(line) >= 2 /\ line[1] = "{" /\ line[Len(line)] = "}"
  THEN Unescape(SubSeq(line, 2, Len(line) - 1)) ELSE NoParse

\* The handler ran up to its withLock call.
OrderCall ==
  \E body \in OrderBodies :
    /\ Len(chain) < MaxOrderCalls
    /\ chain' = Append(chain, [op |-> body.op, st |-> "waiting", awaits |-> 0, outcome |-> "none"])
    /\ reqs' = Append(reqs, body)
    /\ UNCHANGED <<lastWrite, overlap, jsonl, acks, saves>>
    /\ UNCHANGED <<normVars, frontVars, upVars, streamVars, valVars, recVars, jsonVars, partVars, faultVars>>

\* The synchronous critical section of call i runs to completion.
SyncSection(i, op, out) ==
  /\ chain[i].st = "waiting"
  /\ chain[i].op = op
  /\ LockReady(i)
  /\ chain' = [chain EXCEPT ![i].st = "settled", ![i].outcome = out]
  /\ lastWrite' = IF out = "ok" THEN [op |-> op, section |-> i] ELSE lastWrite
  /\ overlap' = (overlap \/ Running # {})

\* /runs/append/urls inside the lock: the line is appended and the request is
\* answered; a section that throws before the write answers 500.
AppendSection ==
  \E i \in 1..Len(chain), out \in {"ok", "threw"} :
    /\ SyncSection(i, "runs/append/urls", out)
    /\ jsonl' = IF out = "ok" THEN appendJsonl(jsonl, reqs[i].url) ELSE jsonl
    /\ acks' = IF out = "ok" THEN Append(acks, i) ELSE acks
    /\ UNCHANGED <<reqs, saves>>
    /\ UNCHANGED <<normVars, frontVars, upVars, streamVars, valVars, recVars, jsonVars, partVars, faultVars>>

\* /upload/file inside the lock: the registry, the tree and the level manifest
\* are written, a line goes to file_saves.jsonl and the request is answered.
\* fresh tells whether appendToLevelManifest pushed the entry.
UploadSection ==
  \E i \in 1..Len(chain), out \in {"ok", "threw"} :
    /\ SyncSection(i, "upload/file", out)
    /\ IF out = "ok"
       THEN LET r == reqs[i]
                o == UploadOutcome(r.b, r.name, r.sp, r.level)
                rec == o.idx[IndexOfSha(o.idx, sha256[r.b])]
                entry == [sha256 |-> rec.sha256, saved_to |-> rec.saved_to]
            IN /\ idx' = o.idx
               /\ disk' = o.disk
               /\ manifest' = o.manifest
               /\ clock' = clock + 1
               /\ last' = [NoLast EXCEPT !.op = "upload", !.kept = SourcesKept(idx, o.idx)]
               /\ saves' = Append(saves, [req |-> i, level |-> r.level, entry |-> entry,
                                          fresh |-> o.manifest # manifest])
               /\ acks' = Append(acks, i)
       ELSE UNCHANGED <<upVars, saves, acks>>
    /\ UNCHANGED <<reqs, jsonl>>
    /\ UNCHANGED <<normVars, frontVars, streamVars, valVars, recVars, jsonVars, partVars, faultVars>>

InitOrder == LockQuiet /\ NormQuiet /\ FrontQuiet /\ UpQuiet /\ StreamQuiet /\ ValQuiet /\ RecQuiet /\ JsonQuiet /\ PartQuiet /\ OrderQuiet /\ FaultQuiet

NextOrder == OrderCall \/ AppendSection \/ UploadSection \/ BeginAsync \/ Resume \/ Settle

SpecOrder == InitOrder /\ [][NextOrder]_vars

----------------------------------------------------------------------------
(* POST /runs/start/files and lib/resort.js: resort-downloads --apply *)

MaxResortUploads == 4   \* /upload/file requests before the tree is resorted
DupLimit == 3           \* the __dupN names tried: for (let i = 1; i < 1000; i++), scaled

NoPath == [dir |-> <<>>, stem |-> "", sfx |-> <<>>, ext |-> ""]

\* The sources of rec less those of the level.
DropLevel(rec, level) ==
  [rec EXCEPT !.sources = SelectSeq(@, LAMBDA src : src.level # level)]

\* minLevelFromSources(rec) < level
UsedByEarlier(rec, level) == \E k \in 1..Len(rec.sources) : rec.sources[k].level < level

\* delete idx[sha]
DeleteAt(ix, i) == [k \in 1..(Len(ix) - 1) |-> IF k < i THEN ix[k] ELSE ix[k + 1]]

\* The loop of /runs/start/files over the entries of the level's manifest.
RECURSIVE StartFilesLoop(_, _, _, _)
StartFilesLoop(items, R, level, t) ==
  IF items = <<>> THEN R
  ELSE LET item == Head(items)
           i == IndexOfSha(R.idx, item.sha256)
           dropped == IF i = 0 THEN R.idx ELSE [R.idx EXCEPT ![i] = DropLevel(@, level)]
           kept == IF i = 0 THEN FALSE ELSE UsedByEarlier(dropped[i], level)
           unlinked == IF item.saved_to \in DOMAIN R.disk THEN Unlink(R.disk, item.saved_to)
                       ELSE R.disk
           ix == IF i = 0 THEN dropped
                 ELSE IF dropped[i].sources = <<>> THEN DeleteAt(dropped, i)
                 ELSE [dropped EXCEPT ![i].last_seen_ts = t]
       IN StartFilesLoop(Tail(items),
                         IF kept THEN [idx |-> dropped, disk |-> R.disk]
                         ELSE [idx |-> ix, disk |-> unlinked],
                         level, t)

\* POST /runs/start/files {level}: the whole critical section.
StartFiles ==
  \E level \in UploadLevels :
    /\ last.op = "upload"
    /\ LET out == StartFilesLoop(manifest[level], [idx |-> idx, disk |-> disk], level, clock + 1)
       IN /\ idx' = out.idx
          /\ disk' = out.disk
    /\ manifest' = [manifest EXCEPT ![level] = <<>>]
    /\ last' = [NoLast EXCEPT !.op = "start", !.level = level]
    /\ clock' = clock + 1
    /\ UNCHANGED nonUpVars

\* `${base}__dup${i}${ext}` beside p
DupOf(p, i) == [p EXCEPT !.sfx = Append(@, [kind |-> "dup", n |-> i, note |-> ""])]

RECURSIVE FirstFree(_, _, _)
FirstFree(d, p, i) ==
  IF i > DupLimit THEN NoPath
  ELSE IF DupOf(p, i) \notin DOMAIN d THEN DupOf(p, i)
  ELSE FirstFree(d, p, i + 1)

\* ensureUniqueTarget without the strategies and the scan: the target itself.
ensureUniqueTargetItself(d, targetAbs, strategy) == targetAbs

ensureUniqueTarget(d, targetAbs, strategy) ==
  IF targetAbs \notin DOMAIN d THEN targetAbs
  ELSE IF strategy = "overwrite" THEN targetAbs
  ELSE IF strategy = "skip" THEN NoPath
  ELSE FirstFree(d, targetAbs, 1)

\* moveFile(oldAbs, newAbs, overwrite): renameSync replaces a file at newAbs
\* whether or not it was unlinked first.
moveFile(d, oldAbs, newAbs) == Rename(d, oldAbs, newAbs)

\* pickBestSource(sources): the first of the sources with the latest ts.
pickBestSource(sources) ==
  LET latest == CHOOSE k \in 1..Len(sources) :
                  /\ \A j \in 1..Len(sources) : sources[j].ts <= sources[k].ts
                  /\ \A j \in 1..(k - 1) : sources[j].ts < sources[k].ts
  IN sources[latest]

updateLevelManifests(m, oldRel, newRel, sha) ==
  [L \in DOMAIN m |->
     [k \in 1..Len(m[L]) |->
        IF m[L][k].sha256 = sha /\ m[L][k].saved_to = oldRel
        THEN [m[L][k] EXCEPT !.saved_to = newRel] ELSE m[L][k]]]

\* The reverse index saved_to -> sha256 built before the loop: of two records
\* with one saved_to the later one is kept.
SavedToSha(ix) ==
  [p \in {ix[i].saved_to : i \in 1..Len(ix)} |->
     ix[CHOOSE i \in 1..Len(ix) :
          ix[i].saved_to = p /\ \A j \in (i + 1)..Len(ix) : ix[j].saved_to # p].sha256]

MapSet(m, k, v) == [q \in DOMAIN m \cup {k} |-> IF q = k THEN v ELSE m[q]]
MapDelete(m, k) == [q \in DOMAIN m \ {k} |-> m[q]]

Log(R, action) == [R EXCEPT !.actions = Append(@, action)]

\* A block under if (!dryRun): a dry run makes an unguarded block's changes.
GuardedNever(dryRun, R, would, S) == S

\* actions.push({action: dryRun ? would : ...}); if (!dryRun) { ... }: a dry
\* run only logs what the --apply run S does.
Guarded(dryRun, R, would, S) == IF dryRun THEN Log(R, would) ELSE S

\* The body of the loop over Object.entries(idx) for the record at position i.
\* R holds the index, the tree, the manifests, the reverse index and the actions.
ResortRecord(R, i, conflict, t, dryRun) ==
  LET rec == R.idx[i]
      oldRel == rec.saved_to
      src == pickBestSource(rec.sources)
      route == resolveSavePath(src.url, rec.ext, src.source_page_url, Basename(oldRel))
      desired == route.outPath
      routed == [rec EXCEPT !.termKey = route.termKey,
                            !.electorateFolder = route.electorateFolder, !.ext = route.ext]
      occupied == desired \in DOMAIN R.disk
      mapped == desired \in DOMAIN R.savedToSha
      diskSha == sha256[R.disk[desired]]
      \* savedToSha.get(existingRel), else the hash of the file if it is indexed
      existingSha == IF ~occupied THEN ""
                     ELSE IF mapped THEN R.savedToSha[desired]
                     ELSE IF IndexOfSha(R.idx, diskSha) # 0 THEN diskSha ELSE ""
      seen == IF occupied /\ ~mapped /\ existingSha # ""
              THEN [R EXCEPT !.savedToSha = MapSet(@, desired, existingSha)] ELSE R
      e == IndexOfSha(R.idx, existingSha)
      existingCanonical == IF e = 0 THEN FALSE ELSE R.idx[e].saved_to = desired
      incomingCanonical == rec.saved_to = desired
      displace == occupied /\ incomingCanonical /\ ~existingCanonical
      displacedAbs == ensureUniqueTarget(R.disk, desired, "suffix")
      \* the occupant is renamed away and its record, if any, follows it
      displaced ==
        Guarded(dryRun, seen, "would_displace_existing",
          [seen EXCEPT
             !.disk = moveFile(@, desired, displacedAbs),
             !.idx = IF e = 0 THEN @ ELSE [@ EXCEPT ![e].saved_to = displacedAbs],
             !.manifest = IF e = 0 THEN @
                          ELSE updateLevelManifests(@, desired, displacedAbs, existingSha),
             !.savedToSha = IF existingSha = "" THEN MapDelete(@, desired)
                            ELSE MapSet(MapDelete(@, desired), displacedAbs, existingSha),
             !.actions = Append(@, "displace_existing")])
      before == IF displace THEN displaced ELSE seen
      targetAbs == IF displace THEN desired
                   ELSE ensureUniqueTarget(R.disk, desired, conflict)
      placed(target) == [routed EXCEPT !.saved_to = target, !.last_seen_ts = t]
  IN IF oldRel \notin DOMAIN R.disk THEN Log(R, "missing")
     ELSE IF rec.sources = <<>> THEN Log(R, "no_source")
     ELSE IF desired = oldRel THEN [R EXCEPT !.idx[i] = routed]
     ELSE IF occupied /\ existingSha = rec.sha256
     THEN Guarded(dryRun, seen, "would_dedupe",
            [seen EXCEPT
               !.disk = Unlink(@, oldRel),
               !.idx[i] = placed(desired),
               !.manifest = updateLevelManifests(@, oldRel, desired, rec.sha256),
               !.savedToSha = MapDelete(MapSet(@, desired, rec.sha256), oldRel),
               !.actions = Append(@, "dedupe")])
     ELSE IF displace /\ displacedAbs = NoPath THEN Log(seen, "conflict_skip")
     ELSE IF targetAbs = NoPath THEN Log(before, "conflict_skip")
     ELSE Guarded(dryRun, before, "would_move",
            [before EXCEPT
               !.disk = moveFile(@, oldRel, targetAbs),
               !.idx[i] = placed(targetAbs),
               !.manifest = updateLevelManifests(@, oldRel, targetAbs, rec.sha256),
               !.actions = Append(@, "move")])

\* Phase A: the records in key insertion order.  Each step's result is bound
\* to a name before the next step reads it.
RECURSIVE PhaseA(_, _, _, _, _)
PhaseA(R, i, conflict, t, dryRun) ==
  IF i > Len(R.idx) THEN R
  ELSE CHOOSE out \in {PhaseA(step, i + 1, conflict, t, dryRun) :
                         step \in {ResortRecord(R, i, conflict, t, dryRun)}} : TRUE

\* The file name less a trailing __dupN.
Identity(p) ==
  IF p.sfx # <<>> /\ p.sfx[Len(p.sfx)].kind = "dup"
  THEN [p EXCEPT !.sfx = SubSeq(@, 1, Len(@) - 1)] ELSE p

\* The body of the loop of scanDownloadsDiskFirst for a file no saved_to names.
ScanFile(R, abs, conflict, dryRun) ==
  LET sha == sha256[R.disk[abs]]
      i == IndexOfSha(R.idx, sha)
      canonicalRel == R.idx[i].saved_to
      hasSiblingTwin == \E q \in DOMAIN R.disk \ {abs} :
                          q.dir = abs.dir /\ q.ext = abs.ext /\ Identity(q) = Identity(abs)
      newAbs == FirstFree(R.disk, Identity(abs), 1)
  IN IF i # 0
     THEN IF canonicalRel \in DOMAIN R.disk
          THEN Guarded(dryRun, R, "would_dedupe_disk",
                 [R EXCEPT !.disk = Unlink(@, abs), !.actions = Append(@, "dedupe_disk")])
          ELSE Guarded(dryRun, R, "would_promote_disk",
                 [R EXCEPT !.disk = moveFile(@, abs, canonicalRel),
                           !.savedToSha = MapSet(@, canonicalRel, sha),
                           !.actions = Append(@, "promote_disk")])
     ELSE IF ~hasSiblingTwin THEN Log(R, "leave_unindexed_no_twin")
     ELSE IF newAbs = NoPath THEN Log(R, "disk_unindexed_no_slot")
     ELSE Guarded(dryRun, R, "would_dup_unindexed",
            [R EXCEPT !.disk = Rename(@, abs, newAbs), !.actions = Append(@, "dup_unindexed")])

\* Phase B: the files of the tree that no record's saved_to names, in the
\* order the directory walk yields them.
RECURSIVE scanDownloadsDiskFirst(_, _, _, _)
scanDownloadsDiskFirst(R, filesOnDisk, conflict, dryRun) ==
  IF filesOnDisk = <<>> THEN R
  ELSE CHOOSE out \in {scanDownloadsDiskFirst(step, Tail(filesOnDisk), conflict, dryRun) :
                         step \in {ScanFile(R, Head(filesOnDisk), conflict, dryRun)}} : TRUE

\* The orders in which a directory walk may yield the files.
WalkOrders(S) ==
  {q \in [1..Cardinality(S) -> S] : \A a, b \in 1..Cardinality(S) : a # b => q[a] # q[b]}

Conflicts == {"suffix", "skip", "overwrite"}

\* The actions the fixed point of the resort speaks of.
Reported == {"move", "displace_existing", "dedupe"}

\* The actions a dry run logs in place of a change.
WouldDo == {"would_move", "would_displace_existing", "would_dedupe", "would_dedupe_disk",
            "would_promote_disk", "would_dup_unindexed"}

\* resortDownloads({cfg, dryRun, conflict}): the two phases, then the registry
\* is written unless the run is a dry run.
ResortRun(conflict, dryRun) ==
  \E R0 \in {[idx |-> idx, disk |-> disk, manifest |-> manifest,
               savedToSha |-> SavedToSha(idx), actions |-> <<>>]} :
  \E A \in {PhaseA(R0, 1, conflict, clock + 1, dryRun)} :
    LET indexedAbs == {A.idx[i].saved_to : i \in 1..Len(A.idx)}
    IN \E filesOnDisk \in WalkOrders(DOMAIN A.disk \ indexedAbs) :
       \E B \in {scanDownloadsDiskFirst(A, filesOnDisk, conflict, dryRun)} :
         /\ idx' = IF dryRun THEN idx ELSE B.idx
         /\ disk' = B.disk
         /\ manifest' = B.manifest
         /\ last' = [NoLast EXCEPT
                       !.op = IF dryRun THEN "dryrun" ELSE "resort",
                       !.acts = Cardinality({k \in 1..Len(B.actions) :
                                               B.actions[k] \in Reported}),
                       !.would = Cardinality({k \in 1..Len(B.actions) :
                                                B.actions[k] \in WouldDo}),
                       !.skips = Cardinality({k \in 1..Len(B.actions) :
                                                B.actions[k] = "conflict_skip"}),
                       !.again = (last.op = "resort"),
                       !.conflict = conflict]

\* node src/index.js resort-downloads --apply --conflict=...: the whole run.
\* The run that follows a run is given the same --conflict.
resortDownloads ==
  \E conflict \in Conflicts :
    /\ \/ last.op \in {"upload", "start"}
       \/ last.op = "none" /\ idx # <<>>
       \/ last.op = "resort" /\ ~last.again
    /\ last.op = "resort" => conflict = last.conflict
    /\ ResortRun(conflict, FALSE)
    /\ clock' = clock + 1
    /\ UNCHANGED nonUpVars

\* The uploads that fill the registry before it is reset or resorted.
ResortBytes == {"pdfX", "pdfY"}

ResortUpload == last.op \in {"none", "upload"} /\ UploadFileOf(ResortBytes, MaxResortUploads)

InitResort == UpQuiet /\ FrontQuiet /\ LockQuiet /\ NormQuiet /\ StreamQuiet /\ ValQuiet /\ RecQuiet /\ JsonQuiet /\ PartQuiet /\ OrderQuiet /\ FaultQuiet

NextResort == ResortUpload \/ StartFiles \/ resortDownloads

SpecResort == InitResort /\ [][NextResort]_vars

\* node src/index.js resort-downloads [--conflict=...] without --apply:
\* dryRun = !args.apply.
resortDryRun ==
  \E conflict \in Conflicts :
    /\ idx # <<>>
    /\ last.op # "dryrun"
    /\ ResortRun(conflict, TRUE)
    /\ clock' = clock + 1
    /\ UNCHANGED nonUpVars

NextDryRun == NextResort \/ resortDryRun

SpecDryRun == InitResort /\ [][NextDryRun]_vars

\* The directories a file of the download tree is routed to.
RoutedDirs == {resolveSavePath("f", "", sp, NoFile).finalDir : sp \in SourcePages}

\* A download tree that was changed behind the registry: the one record names
\* bucket/f.pdf, its bytes X sit at other/f.pdf, and bucket/f.pdf holds bytes Y
\* that no record has the hash of.  The record is the one the upload of X left.
Misplaced(sp, bucket, other, y) ==
  LET route == resolveSavePath("f", "", sp, NoFile)
      file == filenameFromUrl["f"]
      rec == [sha256 |-> sha256["pdfX"], saved_to |-> PathOf(bucket, file), ext |-> route.ext,
              termKey |-> route.termKey, electorateFolder |-> route.electorateFolder,
              last_seen_ts |-> 0, first_seen_ts |-> 0,
              sources |-> <<[url |-> "f", source_page_url |-> sp, level |-> 1, ts |-> 0]>>,
              note |-> "ok"]
  IN [idx |-> <<rec>>,
      disk |-> (PathOf(bucket, file) :> y) @@ (PathOf(other, file) :> "pdfX"),
      manifest |-> [L \in UploadLevels |->
                      IF L = 1 THEN <<[sha256 |-> rec.sha256, saved_to |-> rec.saved_to]>>
                      ELSE <<>>]]

InitMisplaced ==
  /\ LockQuiet /\ NormQuiet /\ FrontQuiet /\ StreamQuiet /\ ValQuiet /\ RecQuiet /\ JsonQuiet /\ PartQuiet /\ OrderQuiet /\ FaultQuiet
  /\ \E sp \in SourcePages, bucket \in RoutedDirs, y \in {"pdfY", "html"} :
       \E other \in RoutedDirs \ {bucket} :
         LET M == Misplaced(sp, bucket, other, y)
         IN idx = M.idx /\ disk = M.disk /\ manifest = M.manifest
  /\ clock = 0
  /\ last = NoLast

MaxMisplacedUploads == 1   \* /upload/file requests to the changed tree

MisplacedUpload ==
  last.op \in {"none", "upload"} /\ UploadFileOf(ResortBytes, MaxMisplacedUploads)

NextMisplaced == MisplacedUpload \/ StartFiles \/ resortDownloads

SpecMisplaced == InitMisplaced /\ [][NextMisplaced]_vars

\* The files of a tree where the one record's file lies at other/f.pdf, the
\* path it is routed to is taken by bytes no record has the hash of, and so
\* is every __dupN name beside it.
Exhausted(sp, other, bytes) ==
  LET route == resolveSavePath("f", "", sp, NoFile)
      desired == route.outPath
      M == Misplaced(sp, other, route.finalDir, bytes[1])
  IN [idx |-> M.idx,
      manifest |-> M.manifest,
      disk |-> [q \in {PathOf(other, filenameFromUrl["f"]), desired}
                        \cup {DupOf(desired, n) : n \in 1..DupLimit} |->
                  IF q = desired THEN bytes[1]
                  ELSE IF q.dir = other THEN "pdfX"
                  ELSE bytes[1 + q.sfx[1].n]]]

InitExhausted ==
  /\ LockQuiet /\ NormQuiet /\ FrontQuiet /\ StreamQuiet /\ ValQuiet /\ RecQuiet /\ JsonQuiet /\ PartQuiet /\ OrderQuiet /\ FaultQuiet
  /\ \E sp \in SourcePages, bytes \in [1..(DupLimit + 1) -> {"pdfY", "html"}] :
       \E other \in RoutedDirs \ {resolveSavePath("f", "", sp, NoFile).finalDir} :
         LET E == Exhausted(sp, other, bytes)
         IN idx = E.idx /\ disk = E.disk /\ manifest = E.manifest
  /\ clock = 0
  /\ last = NoLast

SpecExhausted == InitExhausted /\ [][NextMisplaced]_vars

\* The files of a tree where the one record's file lies at other/f.pdf and the
\* path it is routed to is taken by bytes y no record has the hash of; every
\* __dupN name beside it is free.
Occupied(sp, other, y) ==
  LET E == Exhausted(sp, other, [n \in 1..(DupLimit + 1) |-> y])
  IN [E EXCEPT !.disk = [q \in {r \in DOMAIN E.disk : r.sfx = <<>>} |-> E.disk[q]]]

InitOccupied ==
  /\ LockQuiet /\ NormQuiet /\ FrontQuiet /\ StreamQuiet /\ ValQuiet /\ RecQuiet /\ JsonQuiet /\ PartQuiet /\ OrderQuiet /\ FaultQuiet
  /\ \E sp \in SourcePages, y \in {"pdfY", "html"} :
       \E other \in RoutedDirs \ {resolveSavePath("f", "", sp, NoFile).finalDir} :
         LET O == Occupied(sp, other, y)
         IN idx = O.idx /\ disk = O.disk /\ manifest = O.manifest
  /\ clock = 0
  /\ last = NoLast

SpecOccupied == InitOccupied /\ [][NextMisplaced]_vars

----------------------------------------------------------------------------
(* The streaming run buckets of several domains: lib/domain.js, the
   /runs/start/urls, /runs/append/urls and /runs/finalize/urls handlers of
   routes/runs.js, and the watchdog of lib/autofinalize.js.  Every request
   names the same run_id.  A JSONL line is the page URL it reports and the
   domain of the bucket it was appended to.  Time is counted in units in which
   a critical section takes no time. *)

MaxStreamOps == 2   \* requests to the run handlers in one behaviour
MaxTime == 7        \* the clock stops here
intervalMs == 2     \* AUTO_FINALIZE_INTERVAL_MS, in units of the clock
idleMs == 3         \* AUTO_FINALIZE_IDLE_MS, in units of the clock

\* What a finalize request says about its domain: the key inferDomainKeyFromReq
\* returns (dk, also for start and append requests), and whether the body or query carries domain_key, domain, crawl_root,
\* root_url, base_url or url.  A key is also inferred from the first URL of
\* visited, pages or files, which is no explicit hint.
Hints == [dk : Domains, explicit : BOOLEAN]

\* st.size of the JSONL file
Size(b) == Len(b.lines)

\* locateRunJsonlAcrossDomains: the domain whose bucket of that file name is
\* the largest, the first such in directory order; "" if there is none.
RECURSIVE LocateFrom(_, _, _, _)
LocateFrom(bk, level, k, best) ==
  IF k > Len(DomainOrder) THEN best
  ELSE LET d == DomainOrder[k]
           better == bk[d][level].exists
                     /\ (best = "" \/ Size(bk[d][level]) > Size(bk[best][level]))
       IN LocateFrom(bk, level, k + 1, IF better THEN d ELSE best)

locateRunJsonlAcrossDomains(bk, level) == LocateFrom(bk, level, 1, "")

\* POST /runs/start/urls: the bucket is truncated and its marker removed.
StreamStart ==
  \E dk \in Domains, level \in StreamLevels :
    /\ ops < MaxStreamOps
    /\ buckets' = [buckets EXCEPT ![dk][level] =
                    [NoJsonl EXCEPT !.exists = TRUE, !.mtime = time]]
    /\ ops' = ops + 1
    /\ UNCHANGED <<dstate, dart, time, ticked>> /\ UNCHANGED nonStreamVars

\* POST /runs/append/urls: one line is appended to the bucket of the request's domain.
StreamAppend ==
  \E dk \in Domains, level \in StreamLevels, u \in StreamUrls :
    /\ ops < MaxStreamOps
    /\ buckets' = [buckets EXCEPT ![dk][level] =
                    [@ EXCEPT !.exists = TRUE,
                              !.lines = Append(@, [url |-> u, from |-> dk]),
                              !.mtime = time]]
    /\ ops' = ops + 1
    /\ UNCHANGED <<dstate, dart, time, ticked>> /\ UNCHANGED nonStreamVars

\* The page URLs recorded in domain d below the level.
SeenBelow(ds, d, level) == {r.url : r \in UNION {ds[d][k] : k \in 1..(level - 1)}}

\* finalizeDiscoveryRun({cfg, level, jsonlPath}): the lines of the bucket of
\* domain src replace level `level` of the state of domain d, the pages not
\* seen below go to urls-level-(level+1).json of d, and the marker is written
\* next to the JSONL file.
finalizeDiscoveryRun(S, d, src, level, who, t) ==
  LET acc == {S.buckets[src][level].lines[k] : k \in 1..Len(S.buckets[src][level].lines)}
      st == [S.dstate EXCEPT ![d][level] = acc]
      nextPages == {r \in acc : r.url \notin SeenBelow(st, d, level)}
  IN [buckets |-> [S.buckets EXCEPT ![src][level] =
                    [@ EXCEPT !.done = TRUE, !.by = who, !.doneAt = t]],
      dstate |-> st,
      dart |-> [S.dart EXCEPT ![d][level + 1] = nextPages]]

\* POST /runs/finalize/urls
StreamFinalize ==
  \E h \in Hints, level \in StreamLevels :
    /\ ops < MaxStreamOps
    /\ LET found == locateRunJsonlAcrossDomains(buckets, level)
           cfg == IF ~h.explicit /\ h.dk = "default" /\ found # "" THEN found ELSE h.dk
           p == IF buckets[cfg][level].exists THEN cfg
                ELSE IF found # "" THEN found ELSE cfg
           out == finalizeDiscoveryRun([buckets |-> buckets, dstate |-> dstate, dart |-> dart],
                                       cfg, p, level, "http", time)
       IN /\ buckets' = out.buckets
          /\ dstate' = out.dstate
          /\ dart' = out.dart
    /\ ops' = ops + 1
    /\ UNCHANGED <<time, ticked>> /\ UNCHANGED nonStreamVars

\* The buckets in the order the watchdog's two loops visit them.
ScanOrder ==
  [k \in 1..(Len(DomainOrder) * MaxLevel) |->
     [d |-> DomainOrder[((k - 1) \div MaxLevel) + 1], level |-> ((k - 1) % MaxLevel) + 1]]

\* A mutant: a bucket whose age equals idleMs is not yet idle.
IsIdleLate(b, t) == t - b.mtime > idleMs

\* age >= idleMs, the age taken from the file's mtime
IsIdle(b, t) == t - b.mtime >= idleMs

\* The watchdog's loops over the domains and their JSONL files.
RECURSIVE WatchdogScan(_, _, _)
WatchdogScan(S, k, t) ==
  IF k > Len(ScanOrder) THEN S
  ELSE LET d == ScanOrder[k].d
           level == ScanOrder[k].level
           b == S.buckets[d][level]
           skip == ~b.exists \/ b.done \/ Size(b) = 0 \/ ~IsIdle(b, t)
       IN IF skip THEN WatchdogScan(S, k + 1, t)
          ELSE CHOOSE out \in {WatchdogScan(step, k + 1, t) :
                 step \in {finalizeDiscoveryRun(S, d, d, level, "watchdog", t)}} : TRUE

\* The timer has fired at this instant and its callback has not run yet.
TickDue == time > 0 /\ time % intervalMs = 0 /\ ticked # time

\* setInterval(() => withLock(async () => {...}), intervalMs): one tick.
WatchdogTick ==
  /\ TickDue
  /\ \E out \in {WatchdogScan([buckets |-> buckets, dstate |-> dstate, dart |-> dart], 1, time)} :
       /\ buckets' = out.buckets
       /\ dstate' = out.dstate
       /\ dart' = out.dart
  /\ ticked' = time
  /\ UNCHANGED <<time, ops>> /\ UNCHANGED nonStreamVars

\* Time passes, but not past an instant whose tick is still to run.
Advance ==
  /\ time < MaxTime
  /\ ~TickDue
  /\ time' = time + 1
  /\ UNCHANGED <<buckets, dstate, dart, ticked, ops>> /\ UNCHANGED nonStreamVars

InitStream == StreamQuiet /\ LockQuiet /\ NormQuiet /\ FrontQuiet /\ UpQuiet /\ ValQuiet /\ RecQuiet /\ JsonQuiet /\ PartQuiet /\ OrderQuiet /\ FaultQuiet

NextStream == StreamStart \/ StreamAppend \/ StreamFinalize \/ WatchdogTick \/ Advance

SpecStream == InitStream /\ [][NextStream]_vars

\* The timer fires and its callback runs; time passes.
SpecStreamFair == SpecStream /\ WF_vars(WatchdogTick) /\ WF_vars(Advance)

----------------------------------------------------------------------------
(* The watchdog of lib/autofinalize.js when finalizing a bucket throws: the
   JSONL file of a bucket in `unreadable` has a size and an mtime but cannot be
   read, so readDiscoveryJsonl throws before finalizeDiscoveryRun has written
   anything.  The clients only start and append; none of them finalizes. *)

\* A mutant: the callback has no try/catch, the promise withLock returns
\* rejects with nobody handling it.
Uncaught(threw) == IF threw THEN "threw" ELSE "ok"

\* try { ... } catch (e) { logEvent("AUTO_FINALIZE_ERROR", ...) }: the async
\* callback fulfils whether or not the scan threw.
Caught(threw) == "ok"

\* The two loops of the callback up to the first finalizeDiscoveryRun that
\* throws: the throw leaves both loops for the catch clause.
RECURSIVE FaultyScan(_, _, _, _)
FaultyScan(S, k, t, bad) ==
  IF k > Len(ScanOrder) THEN [buckets |-> S.buckets, dstate |-> S.dstate, dart |-> S.dart,
                              threw |-> FALSE]
  ELSE LET d == ScanOrder[k].d
           level == ScanOrder[k].level
           b == S.buckets[d][level]
           skip == ~b.exists \/ b.done \/ Size(b) = 0 \/ ~IsIdle(b, t)
       IN IF skip THEN FaultyScan(S, k + 1, t, bad)
          ELSE IF [d |-> d, level |-> level] \in bad
          THEN [buckets |-> S.buckets, dstate |-> S.dstate, dart |-> S.dart, threw |-> TRUE]
          ELSE CHOOSE out \in {FaultyScan(step, k + 1, t, bad) :
                 step \in {finalizeDiscoveryRun(S, d, d, level, "watchdog", t)}} : TRUE

\* setInterval(() => { withLock(async () => { try {...} catch {...} }) }): one
\* firing of the timer, its critical section run to its end.  The timer fires
\* as long as the process lives.
FaultyTick ==
  /\ TickDue
  /\ wdlog.alive
  /\ \E out \in {FaultyScan([buckets |-> buckets, dstate |-> dstate, dart |-> dart],
                            1, time, unreadable)} :
       /\ buckets' = out.buckets
       /\ dstate' = out.dstate
       /\ dart' = out.dart
       /\ chain' = Append(chain, [op |-> "watchdog", st |-> "settled", awaits |-> 0,
                                  outcome |-> Caught(out.threw)])
       /\ wdlog' = [ticks |-> wdlog.ticks + 1,
                    errors |-> IF out.threw /\ Caught(out.threw) = "ok"
                               THEN wdlog.errors + 1 ELSE wdlog.errors,
                    alive |-> Caught(out.threw) = "ok"]
  /\ ticked' = time
  /\ UNCHANGED <<time, ops, unreadable, lastWrite, overlap>>
  /\ UNCHANGED <<normVars, frontVars, upVars, valVars, recVars, jsonVars, partVars, orderVars>>

\* At most one bucket is unreadable.
InitFaulty ==
  /\ StreamQuiet /\ LockQuiet /\ NormQuiet /\ FrontQuiet /\ UpQuiet /\ ValQuiet /\ RecQuiet
  /\ JsonQuiet /\ PartQuiet /\ OrderQuiet
  /\ unreadable \in {{}} \cup {{[d |-> d, level |-> L]} : d \in Domains, L \in StreamLevels}
  /\ wdlog = NoWdlog

NextFaulty == StreamStart \/ StreamAppend \/ FaultyTick \/ Advance

SpecFaulty == InitFaulty /\ [][NextFaulty]_vars

\* The timer fires and its callback runs; time passes.
SpecFaultyFair == SpecFaulty /\ WF_vars(FaultyTick) /\ WF_vars(Advance)

----------------------------------------------------------------------------
(* Request validation: what each handler checks before it touches the disk,
   and what it has already done by then.  The disk is the set of domain
   directories and the set of files written so far. *)

MaxValOps == 2      \* requests in one behaviour of the validation specification
RunIdCap == 120     \* .slice(0, 120)

\* req.body.level: absent, or a number.
LevelInputs == {[given |-> FALSE, n |-> 0]} \cup {[given |-> TRUE, n |-> k] : k \in (-1)..MaxLevel}

\* !Number.isFinite(level) || level < 1
InvalidLevel(lv) == ~lv.given \/ lv.n < 1

\* req.body.run_id: absent, "r1", "a/b", "a b/"
RunIdInputs == {<<>>, <<"r", "1">>, <<"a", "/", "b">>, <<"a", " ", "b", "/">>}

\* [a-zA-Z0-9._-] on the characters of the inputs
SafeChar(c) == c \in AlNum \cup Digits \cup {"r", ".", "_", "-"}

\* raw.replace(/[^a-zA-Z0-9._-]+/g, "_")
RECURSIVE ReplaceUnsafe(_, _)
ReplaceUnsafe(s, inRun) ==
  IF s = <<>> THEN <<>>
  ELSE IF SafeChar(Head(s)) THEN <<Head(s)>> \o ReplaceUnsafe(Tail(s), FALSE)
  ELSE IF inRun THEN ReplaceUnsafe(Tail(s), TRUE)
  ELSE <<"_">> \o ReplaceUnsafe(Tail(s), TRUE)

\* safeRunId(v): the sanitized id, or run_<Date.now()> when nothing is left.
safeRunId(v, t) ==
  LET safe == SubSeq(ReplaceUnsafe(Trim(v), FALSE), 1,
                     IF Len(ReplaceUnsafe(Trim(v), FALSE)) < RunIdCap
                     THEN Len(ReplaceUnsafe(Trim(v), FALSE)) ELSE RunIdCap)
  IN IF safe = <<>> THEN [id |-> <<"r", "u", "n", "_">>, stamp |-> t]
     ELSE [id |-> safe, stamp |-> 0]

\* A run_id the bucket key is not made of as given.
InvalidRunId(v) == v = <<>> \/ \E k \in 1..Len(v) : ~SafeChar(v[k])

NoId == [id |-> <<>>, stamp |-> 0]

File(kind, dk, n, id) == [kind |-> kind, dk |-> dk, level |-> n, id |-> id]

\* The answer to a request and the disk after it.  dirs are the domain
\* directories the handler has ensured, files what it has written.
Answer(op, status, bad, dirs, files) ==
  /\ vstore' = [dirs |-> vstore.dirs \cup dirs, files |-> vstore.files \cup files,
                n |-> vstore.n + 1]
  /\ resp' = [op |-> op, status |-> status, bad |-> bad,
              changed |-> (files # {} \/ ~(dirs \subseteq vstore.dirs))]
  /\ UNCHANGED nonValVars

\* POST /runs/start/urls and POST /runs/append/urls: cfgForReq, then the
\* level check, then safeRunId and the write under the lock.
ValRunWrite ==
  \E op \in {"runs/start/urls", "runs/append/urls"},
     dk \in Domains, lv \in LevelInputs, rid \in RunIdInputs :
    /\ vstore.n < MaxValOps
    /\ IF InvalidLevel(lv) THEN Answer(op, 400, TRUE, {dk}, {})
       ELSE Answer(op, 200, InvalidRunId(rid), {dk},
                   {File("jsonl", dk, lv.n, safeRunId(rid, vstore.n))})

\* POST /runs/finalize/urls: the level check, then cfgForReq, safeRunId and
\* finalizeDiscoveryRun under the lock.
ValFinalize ==
  \E dk \in Domains, lv \in LevelInputs, rid \in RunIdInputs :
    /\ vstore.n < MaxValOps
    /\ IF InvalidLevel(lv) THEN Answer("runs/finalize/urls", 400, TRUE, {}, {})
       ELSE Answer("runs/finalize/urls", 200, InvalidRunId(rid), {dk},
                   {File("state", dk, 0, NoId), File("artifact", dk, lv.n, NoId),
                    File("done", dk, lv.n, safeRunId(rid, vstore.n))})

\* POST /runs/start/files and POST /dedupe/level: cfgForReq, then the level check.
ValLevelOnly ==
  \E op \in {"runs/start/files", "dedupe/level"}, dk \in Domains, lv \in LevelInputs :
    /\ vstore.n < MaxValOps
    /\ IF InvalidLevel(lv) THEN Answer(op, 400, TRUE, {dk}, {})
       ELSE Answer(op, 200, FALSE, {dk},
                   IF op = "dedupe/level"
                   THEN {File("state", dk, 0, NoId), File("artifact", dk, lv.n, NoId)}
                   ELSE {File("manifest", dk, lv.n, NoId), File("registry", dk, 0, NoId)})

\* POST /upload/file: bfs_level, then url and content_base64; the router is
\* made with the base configuration.
ValUpload ==
  \E lv \in LevelInputs, url \in {"", "f"}, b64 \in {"", "pdfX"} :
    /\ vstore.n < MaxValOps
    /\ IF InvalidLevel(lv) \/ url = "" \/ b64 = ""
       THEN Answer("upload/file", 400, TRUE, {}, {})
       ELSE Answer("upload/file", 200, FALSE, {},
                   {File("download", "", 0, NoId), File("registry", "", 0, NoId),
                    File("manifest", "", lv.n, NoId)})

InitValidate == ValQuiet /\ StreamQuiet /\ LockQuiet /\ NormQuiet /\ FrontQuiet /\ UpQuiet /\ RecQuiet /\ JsonQuiet /\ PartQuiet /\ OrderQuiet /\ FaultQuiet

NextValidate == ValRunWrite \/ ValFinalize \/ ValLevelOnly \/ ValUpload

SpecValidate == InitValidate /\ [][NextValidate]_vars

----------------------------------------------------------------------------
(* C1: at no time are two functions passed to withLock executing at once: a
   section suspended at an await keeps the lock until its promise settles and
   no other section begins before that. *)
C1_MutualExclusion == Cardinality(Running) <= 1 /\ ~overlap

\* A finalize section is suspended at an await while a later call waits behind it.
C1_Witness ==
  \E i \in Running : \E j \in 1..Len(chain) : j > i /\ chain[j].st = "waiting"

(* C2: every handler that changes persistent state performs its
   read-modify-write inside the mutation mutex, /dedupe/level, /probe/meta and
   /meta/electorates included. *)
C2_EveryMutationLocked == lastWrite.op # "none" => lastWrite.section # 0

(* C9: normalizeUrl is idempotent: normalizing an already normalized string
   returns it unchanged, for inputs nested deeper than the cleaning cap and
   for strings new URL rejects as well. *)
C9_Idempotent == norm.stage = 2 => norm.twice = norm.once

\* The URLs recorded as visited or as a page at a stored level below L.
RecordedBelow(L) ==
  UNION {SeqToSet(levels[K].visited) \cup SeqToSet(levels[K].pages) :
         K \in {J \in DOMAIN levels : J < L}}

(* C3: after a /dedupe/level call for level L, urls-level-(L+1).json lists
   exactly the stored pages of level L that are neither visited at level L nor
   recorded (visited or page) at a stored lower level. *)
C3_ExactFrontier ==
  lastReq.op = "dedupe" =>
    LET L == lastReq.body.level
    IN SeqToSet(art[<<"urls", L + 1>>].rows) =
         {u \in SeqToSet(levels[L].pages) :
            u \notin SeqToSet(levels[L].visited) /\ u \notin RecordedBelow(L)}

(* C7: a /dedupe/level request whose body is identical to the previous
   request's leaves every artifact file as it was after that previous
   request. *)
C7_RepeatIdentical == hist.repeat => hist.sameAll

(* C4: a finalize of a bucket that already carries its .done marker is a
   no-op: state.json and every artifact file are after the call what they
   were before it. *)
C4_FinalizeDoneNoOp == hist.onDone => ~hist.changed

\* The bytes on disk at a record's saved_to are the bytes its key is the hash of.
HashesTo(rec) == rec.saved_to \in DOMAIN disk /\ sha256[disk[rec.saved_to]] = rec.sha256

(* C5: after every completed upload, the file named by each registry record's
   saved_to has SHA-256 equal to that record's key. *)
C5_SavedToHashes == \A i \in 1..Len(idx) : HashesTo(idx[i])

(* C6: across uploads a record's sources never lose an observation, the
   upload that finds the record's file missing and saves the bytes again
   included. *)
C6_SourcesOnlyGrow == last.op = "upload" => last.kept

\* The URLs files-level-L.json lists.
ListedAt(L) == {art[<<"files", L>>].rows[k].url : k \in 1..Len(art[<<"files", L>>].rows)}

(* C10: each URL the registry records with a source observation at level L
   is listed in files-level-L.json. *)
C10_RegistryWithinArtifact ==
  \A i \in 1..Len(idx) : \A k \in 1..Len(idx[i].sources) :
    idx[i].sources[k].url \in ListedAt(idx[i].sources[k].level)

(* C8: after a resort-downloads --apply run, an immediately following run
   over the unchanged tree and registry reports no move, displace or dedupe
   action. *)
C8_ResortFixedPoint == (last.op = "resort" /\ last.again) => last.acts = 0

(* C11: a bucket that holds at least one appended record, has no .done marker
   and receives no further write is finalized by the watchdog within one
   interval after it has been idle for idleMs: at no instant is a non-empty
   bucket without marker older than idleMs plus one interval. *)
C11_FinalizedWithinInterval ==
  \A d \in Domains, L \in StreamLevels :
    (buckets[d][L].exists /\ Size(buckets[d][L]) > 0 /\ ~buckets[d][L].done)
      => time - buckets[d][L].mtime < idleMs + intervalMs

\* The watchdog has finalized a bucket that had been idle for idleMs.
C11_Witness ==
  \E d \in Domains, L \in StreamLevels :
    /\ buckets[d][L].done /\ buckets[d][L].by = "watchdog"
    /\ Size(buckets[d][L]) > 0
    /\ buckets[d][L].doneAt - buckets[d][L].mtime >= idleMs

(* C13: records appended to a run bucket of one domain are never folded into
   the state or the artifacts of another domain. *)
C13_NoCrossDomainFold ==
  \A d \in Domains :
    /\ \A L \in StreamLevels : \A r \in dstate[d][L] : r.from = d
    /\ \A N \in 1..(MaxLevel + 1) : \A r \in dart[d][N] : r.from = d

\* The records whose file exists and that cite a level below L.
CitedBelow(L) ==
  {i \in 1..Len(idx) : idx[i].saved_to \in DOMAIN disk
                        /\ \E k \in 1..Len(idx[i].sources) : idx[i].sources[k].level < L}

\* The records whose file exists and whose sources are all at level L.
CitedOnlyAt(L) ==
  {i \in 1..Len(idx) : idx[i].saved_to \in DOMAIN disk
                        /\ idx[i].sources # <<>>
                        /\ \A k \in 1..Len(idx[i].sources) : idx[i].sources[k].level = L}

(* C12: POST /runs/start/files for level L deletes no file whose registry
   record also has a source at a level lower than L, and deletes every file
   whose record has sources at level L only. *)
C12_StartFilesKeepsEarlier ==
  [][last'.op = "start" =>
       /\ \A i \in CitedBelow(last'.level) : idx[i].saved_to \in DOMAIN disk'
       /\ \A i \in CitedOnlyAt(last'.level) : idx[i].saved_to \notin DOMAIN disk']_vars

(* C14: a request with a missing or non-positive level, an upload without url
   or content_base64, or a run request with an invalid run_id is answered with
   a 4xx status and changes no persistent state. *)
C14_InvalidRejected == resp.bad => (resp.status = 400 /\ ~resp.changed)

(* C15: when a critical section throws or rejects, the lock is released: every
   withLock call that comes after a section that threw still gets to run its
   function and settles with its own outcome. *)
C15_ReleasedAfterThrow ==
  \A i \in 2..MaxCalls :
    []((Len(chain) >= i /\ \E j \in 1..(i - 1) : chain[j].outcome = "threw")
         => <>(Len(chain) >= i /\ chain[i].st = "settled"))

\* A section has run and fulfilled after an earlier section threw.
C15_Witness ==
  \E i \in 2..Len(chain) :
    /\ chain[i].st = "settled" /\ chain[i].outcome = "ok"
    /\ \E j \in 1..(i - 1) : chain[j].outcome = "threw"

\* The URLs of a level record's visited, pages and files lists.
SetsOf(rec) ==
  [visited |-> SeqToSet(rec.visited), pages |-> SeqToSet(rec.pages),
   files |-> {f.url : f \in SeqToSet(rec.files)}]

\* st.levels[L], a level without a record having empty lists.
RecordAt(lv, L) ==
  IF L \in DOMAIN lv THEN lv[L] ELSE [visited |-> <<>>, pages |-> <<>>, files |-> <<>>]

(* C16: for every level of the state the frontier engine wrote, the visited,
   pages and files sets of the state reconcileStateFromArtifacts rebuilds from
   the artifact files equal the sets of that written state. *)
C16_RebuiltEqualsWritten ==
  rebuilt.done =>
    \A L \in DOMAIN rebuilt.written :
      SetsOf(RecordAt(rebuilt.levels, L)) = SetsOf(rebuilt.written[L])

(* C17: once a resort-downloads --apply pass has completed, no two registry
   records have the same saved_to path, whatever uploads preceded the pass. *)
C17_UniqueSavedTo ==
  last.op = "resort" =>
    \A i, j \in 1..Len(idx) : idx[i].saved_to = idx[j].saved_to => i = j

\* The path the one record of the changed tree names.
BucketPath == idx[1].saved_to

(* C18: the registry record of S names bucket/file while the bytes of S sit at
   other/file and bucket/file holds unindexed bytes Y: resort-downloads --apply
   ends with Y at bucket/file__dup1 and the bytes of S at bucket/file. *)
C18_MisplacedRestored ==
  [][(last.op = "none" /\ last'.op = "resort") =>
       /\ BucketPath \in DOMAIN disk'
       /\ disk'[BucketPath] = "pdfX"
       /\ DupOf(BucketPath, 1) \in DOMAIN disk'
       /\ disk'[DupOf(BucketPath, 1)] = disk[BucketPath]]_vars

(* C19: a JSON file is replaced atomically: at every instant, also when the
   process has stopped in the middle of a write, the target path holds the
   complete previous content or the complete new content. *)
C19_AtomicReplace ==
  jcall.n > 0 => jfiles.target \in {jcall.prev, Full(jcall.data)}

(* C20: resort-downloads invoked without --apply moves, renames and deletes no
   file of the download tree and leaves the hash registry and the level
   manifests unchanged. *)
C20_DryRunChangesNothing ==
  [][last'.op = "dryrun" => (disk' = disk /\ idx' = idx /\ manifest' = manifest)]_vars

\* A dry run has met a tree where the --apply run moves, renames or deletes files.
C20_Witness == last.op = "dryrun" /\ last.would > 0

(* C21: when every __dupN name beside the target is taken, the resort records
   a conflict_skip for the entry and changes neither the tree nor the
   registry (nor the manifests) for it. *)
C21_ExhaustedSkips ==
  [][(last.op = "none" /\ last'.op = "resort" /\ last'.conflict = "suffix") =>
       (last'.skips = 1 /\ disk' = disk /\ idx' = idx /\ manifest' = manifest)]_vars

\* A run under the suffix policy has skipped the entry for want of a name.
C21_Witness ==
  /\ last.op = "resort" /\ last.conflict = "suffix" /\ ~last.again /\ last.skips = 1
  /\ clock = 1
  /\ Cardinality({q \in DOMAIN disk : q.sfx # <<>>}) = DupLimit

\* The body of the one /dedupe/level call that carries what the bucket of
\* level L holds: every appended visited and page URL and the by-URL merge of
\* the appended files, with the options the handler defaults to.
BatchBody(L) ==
  LET acc == readDiscoveryJsonl(runs[L])
  IN [NoBody EXCEPT !.level = L, !.visited = acc.visited, !.pages = acc.pages,
                    !.files = acc.files]

\* state.levels[L], urls-level-(L+1).json and files-level-L.json.
LevelOutcome(lv, a, L) ==
  [record |-> lv[L], urls |-> a[<<"urls", L + 1>>].rows, files |-> a[<<"files", L>>].rows]

(* C22: finalizing a bucket leaves state.levels[L], urls-level-(L+1).json and
   files-level-L.json as one /dedupe/level call for level L leaves them that
   is given, from the same prior state, all that was appended to the bucket. *)
C22_FinalizeAsOneBatch ==
  [][lastReq'.op = "finalize" =>
       LET L == lastReq'.body.level
           lv == MergedLevels(BatchBody(L))
       IN LevelOutcome(levels', art', L) =
            LevelOutcome(lv, DedupeArtifacts(BatchBody(L), lv, now + 1), L)]_vars

\* What the finalized bucket of the first run_id gave to level L and the
\* state still holds.
Contributed(L) ==
  LET rec == FinalizedLevelsOf(runs[L], L)[L]
      held == SetsOf(RecordAt(levels, L))
  IN [visited |-> SeqToSet(rec.visited) \cap held.visited,
      pages |-> SeqToSet(rec.pages) \cap held.pages,
      files |-> {f.url : f \in SeqToSet(rec.files)} \cap held.files]

(* C23: finalizing the bucket of a second run_id for level L keeps in
   state.levels[L] the visited, pages and files an earlier finalized run of
   level L contributed, and in the level's artifacts those it listed. *)
C23_SecondRunKeepsFirst ==
  [][(/\ lastReq'.op = "finalize2"
      /\ runs[lastReq'.body.level].done
      /\ parts[lastReq'.body.level].lines # <<>>) =>
       LET L == lastReq'.body.level
           was == Contributed(L)
           is == SetsOf(levels'[L])
       IN /\ was.visited \subseteq is.visited
          /\ was.pages \subseteq is.pages
          /\ was.files \subseteq is.files
          /\ was.pages \cap SeqToSet(art[<<"urls", L + 1>>].rows)
               \subseteq SeqToSet(art'[<<"urls", L + 1>>].rows)
          /\ was.files \cap {f.url : f \in SeqToSet(art[<<"files", L>>].rows)}
               \subseteq {f.url : f \in SeqToSet(art'[<<"files", L>>].rows)}]_vars

(* C24: a finalize request for a level whose JSONL bucket does not exist or
   holds no line leaves state.levels[L], urls-level-(L+1).json and
   files-level-L.json as they were. *)
C24_EmptyFinalizeKeeps ==
  [][(/\ lastReq'.op = "finalize"
      /\ runs[lastReq'.body.level].lines = <<>>) =>
       LET L == lastReq'.body.level
       IN /\ RecordAt(levels', L) = RecordAt(levels, L)
          /\ art'[<<"urls", L + 1>>] = art[<<"urls", L + 1>>]
          /\ art'[<<"files", L>>] = art[<<"files", L>>]]_vars

\* The SHA-256 digests some file of the downloads tree d holds.
Contents(d) == {sha256[d[p]] : p \in DOMAIN d}

(* C25: a resort that applies its plan under the suffix policy never removes
   the last copy of any content: every SHA-256 some file under the downloads
   tree had before the run, some file has after it. *)
C25_KeepsLastCopy ==
  [][(last'.op = "resort" /\ last'.conflict = "suffix") =>
       Contents(disk) \subseteq Contents(disk')]_vars

\* The path the record routes to from its own best source, keeping its file name.
DesiredOf(rec) ==
  LET src == pickBestSource(rec.sources)
  IN resolveSavePath(src.url, rec.ext, src.source_page_url, Basename(rec.saved_to)).outPath

\* The one record of the registry has its file elsewhere than the path it
\* routes to, and that path holds other content no record knows; the first
\* __dup name beside it is free.
StrangerAtDesired ==
  /\ Len(idx) = 1
  /\ idx[1].sources # <<>>
  /\ idx[1].saved_to \in DOMAIN disk
  /\ LET desired == DesiredOf(idx[1])
     IN /\ desired # idx[1].saved_to
        /\ desired \in DOMAIN disk
        /\ sha256[disk[desired]] # idx[1].sha256
        /\ IndexOfSha(idx, sha256[disk[desired]]) = 0
        /\ DupOf(desired, 1) \notin DOMAIN disk

(* C26: when the path a record routes to holds different content that is not
   in the registry, the resort renames the occupant to the __dup1 name and puts
   the incoming file at the desired path (rule A). *)
C26_StrangerDisplaced ==
  [][(StrangerAtDesired /\ last'.op = "resort" /\ last'.conflict = "suffix") =>
       LET desired == DesiredOf(idx[1])
       IN /\ desired \in DOMAIN disk'
          /\ disk'[desired] = disk[idx[1].saved_to]
          /\ DupOf(desired, 1) \in DOMAIN disk'
          /\ disk'[DupOf(desired, 1)] = disk[desired]
          /\ idx'[1].saved_to = desired]_vars

\* The acknowledged appends, in the order of the answers.
AckedAppends == SelectSeq(acks, LAMBDA i : reqs[i].op = "runs/append/urls")

(* C27: however the appends of several clients to one bucket interleave, the
   JSONL file holds exactly one complete line per acknowledged append, and the
   line parses to the record of that append. *)
C27_OneLinePerAppend ==
  LET lines == SplitLines(jsonl, <<>>)
  IN /\ Len(lines) = Len(AckedAppends)
     /\ jsonl # <<>> => jsonl[Len(jsonl)] = "LF"
     /\ \A k \in 1..Len(lines) :
          k <= Len(AckedAppends) =>
            JsonParse(lines[k]) = [ok |-> TRUE, url |-> reqs[AckedAppends[k]].url]

\* Two clients were answered and one of the records holds a line feed.
C27_Witness ==
  /\ Len(AckedAppends) >= 2
  /\ {reqs[AckedAppends[k]].client : k \in 1..Len(AckedAppends)} = Clients
  /\ \E k \in 1..Len(AckedAppends) : "LF" \in SeqToSet(reqs[AckedAppends[k]].url)

\* The place of the entry in the manifest of the level.
PlaceOf(m, entry) == CHOOSE k \in 1..Len(m) : m[k] = entry

(* C28: the critical sections run in the order of their withLock calls: when
   upload A called withLock before upload B, the line A logged precedes the
   line B logged, and the level-manifest entry A pushed precedes the one B
   pushed. *)
C28_CallOrder ==
  \A k1, k2 \in 1..Len(saves) :
    saves[k1].req < saves[k2].req =>
      /\ k1 < k2
      /\ (saves[k1].level = saves[k2].level /\ saves[k1].fresh /\ saves[k2].fresh) =>
           LET m == manifest[saves[k1].level]
           IN PlaceOf(m, saves[k1].entry) < PlaceOf(m, saves[k2].entry)

\* Two uploads logged and each pushed an entry to the manifest of one level,
\* a finalize having been called between them.
C28_Witness ==
  /\ Len(saves) = 2
  /\ saves[1].fresh /\ saves[2].fresh
  /\ saves[1].level = saves[2].level
  /\ saves[2].req = saves[1].req + 2
  /\ reqs[saves[1].req + 1].op = "runs/finalize/urls"

(* C29: after every completed upload, /runs/start/files reset and resort that
   applies its plan, the saved_to of each registry record is absent or names a
   file that exists. *)
C29_SavedToExists ==
  last.op \in {"upload", "start", "resort"} =>
    \A i \in 1..Len(idx) : idx[i].saved_to = NoPath \/ idx[i].saved_to \in DOMAIN disk

(* C30: after an upload that moves an existing file to a more specific
   location, and after a resort that applies its plan, every level-manifest
   entry for the SHA of a moved file carries the saved_to its record has now. *)
C30_ManifestFollows ==
  [][last'.op \in {"upload", "resort"} =>
       \A i \in 1..Len(idx) :
         (/\ i <= Len(idx')
          /\ idx'[i].sha256 = idx[i].sha256
          /\ idx[i].saved_to \in DOMAIN disk
          /\ idx'[i].saved_to # idx[i].saved_to) =>
           \A L \in UploadLevels :
             \A k \in 1..Len(manifest'[L]) :
               manifest'[L][k].sha256 = idx[i].sha256 =>
                 manifest'[L][k].saved_to = idx'[i].saved_to]_vars

\* The watchdog would finalize the bucket at this instant.
Eligible(d, L) ==
  /\ buckets[d][L].exists /\ ~buckets[d][L].done
  /\ Size(buckets[d][L]) > 0 /\ IsIdle(buckets[d][L], time)

(* C31: a bucket whose finalization throws on every attempt does not keep the
   others back: every other idle, non-empty bucket without a .done marker is
   finalized by some later tick, unless it is written again before. *)
C31_OthersFinalized ==
  \A d \in Domains, L \in StreamLevels :
    (/\ Eligible(d, L)
     /\ [d |-> d, level |-> L] \notin unreadable
     /\ time + intervalMs <= MaxTime)
      ~> (buckets[d][L].done \/ ~Eligible(d, L))

(* C32: an error raised while the watchdog finalizes a bucket is caught and
   logged and does not stop the watchdog: the critical section of the tick
   settles fulfilled, so the lock is released, the timer stays alive, and a
   later tick runs. *)
C32_ErrorsSwallowed ==
  /\ [](/\ wdlog.alive
        /\ \A i \in 1..Len(chain) : chain[i].st = "settled" /\ chain[i].outcome = "ok")
  /\ \A n \in 1..(MaxTime \div intervalMs) :
       (wdlog.errors > 0 /\ wdlog.ticks = n /\ time + intervalMs <= MaxTime)
         ~> (wdlog.ticks > n)

\* Two ticks have logged an error: the second ran after the first had thrown.
C32_Witness == wdlog.errors >= 2 /\ Len(chain) = wdlog.ticks

\* The watchdog ticks that wait on the mutex.
WaitingTicks == {i \in 1..Len(chain) : chain[i].op = "watchdog" /\ chain[i].st = "waiting"}

(* C33: while a critical section holds the mutex and a watchdog tick already
   waits on it, a further firing of the interval timer coalesces with the
   waiting tick: it adds no other queued tick. *)
C33_TicksCoalesce ==
  [][(/\ Running # {}
      /\ WaitingTicks # {}
      /\ Len(chain') = Len(chain) + 1
      /\ chain'[Len(chain')].op = "watchdog") =>
       Cardinality(WaitingTicks') = Cardinality(WaitingTicks)]_vars

\* The record is in the level state of some domain.
Incorporated(rec, L) == \E d \in Domains : rec \in dstate[d][L]

\* The record is a line of the bucket.
Appended(rec, d, L) ==
  \E k \in 1..Len(buckets[d][L].lines) : buckets[d][L].lines[k] = rec

(* C34: no acknowledged append is left unprocessed for ever: a record that
   lies in a bucket with a .done marker and in no level state is in the end
   incorporated into level state by a later finalize, unless the bucket is
   truncated. *)
C34_AppendedAfterDone ==
  \A d \in Domains, L \in StreamLevels, u \in StreamUrls :
    (/\ buckets[d][L].done
     /\ Appended([url |-> u, from |-> d], d, L)
     /\ ~Incorporated([url |-> u, from |-> d], L)
     /\ time + idleMs + intervalMs <= MaxTime)
      ~> (Incorporated([url |-> u, from |-> d], L) \/ ~Appended([url |-> u, from |-> d], d, L))

\* No two observations of the source list have one (url, source_page_url, level).
OneEachTriple(sources) == Cardinality(Triples(sources)) = Len(sources)

\* The step is the upload of the body (b, url, sp, L).
UploadOf(b, url, sp, L) ==
  /\ last'.op = "upload"
  /\ clock' = clock + 1
  /\ idx' = UploadOutcome(b, url, sp, L).idx
  /\ disk' = UploadOutcome(b, url, sp, L).disk
  /\ manifest' = UploadOutcome(b, url, sp, L).manifest

(* C35: no record of the hash registry holds two source observations with
   the same (url, source_page_url, level), and an upload of bytes whose
   record already has the triple of the upload leaves the number of the
   record's observations unchanged. *)
C35_TriplesCoalesced ==
  /\ [](\A i \in 1..Len(idx) : OneEachTriple(idx[i].sources))
  /\ [][\A b \in DOMAIN Bytes, url \in UploadUrls, sp \in SourcePages, L \in UploadLevels :
          (/\ UploadOf(b, url, sp, L)
           /\ IndexOfSha(idx, sha256[b]) # 0
           /\ <<url, sp, L>> \in Triples(idx[IndexOfSha(idx, sha256[b])].sources))
            => Len(idx'[IndexOfSha(idx, sha256[b])].sources)
                 = Len(idx[IndexOfSha(idx, sha256[b])].sources)]_vars

(* C36: within each level manifest no two entries have the same
   (sha256, saved_to), whatever uploads and resort passes came before. *)
C36_ManifestKeysUnique ==
  \A L \in UploadLevels :
    \A j, k \in 1..Len(manifest[L]) :
      (/\ manifest[L][j].sha256 = manifest[L][k].sha256
       /\ manifest[L][j].saved_to = manifest[L][k].saved_to) => j = k

(* C37: with patch on and prune off, every URL of the main URL artifact and
   every row of the main file artifact before a /dedupe/level call is in the
   artifact after the call. *)
C37_PatchKeepsRows ==
  [][(/\ now' = now + 1
      /\ lastReq'.op = "dedupe"
      /\ lastReq'.body.update /\ ~lastReq'.body.full /\ ~lastReq'.body.prune)
       => /\ SeqToSet(art[<<"urls", lastReq'.body.level + 1>>].rows)
               \subseteq SeqToSet(art'[<<"urls", lastReq'.body.level + 1>>].rows)
          /\ SeqToSet(art[<<"files", lastReq'.body.level>>].rows)
               \subseteq SeqToSet(art'[<<"files", lastReq'.body.level>>].rows)]_vars

\* The URLs of a list of file rows.
FileUrls(files) == {files[k].url : k \in 1..Len(files)}

(* C38: a /dedupe/level call without replace leaves state.levels[L] equal to
   the union of the stored level-L record and the visited and pages of the
   call, its files being those of both with one row for each URL; with
   replace, or with nothing stored, the record is the input of the call
   alone. *)
C38_MergeIsUnion ==
  [][(now' = now + 1 /\ lastReq'.op = "dedupe") =>
       LET b == lastReq'.body
           L == b.level
           visited == SeqToSet(stableUniqUrls(b.visited))
           pages == SeqToSet(stableUniqUrls(b.pages))
           files == FileUrls(mergeFilesPreferSource(b.files))
           prev == IF ~b.replace /\ L \in DOMAIN levels THEN levels[L]
                   ELSE [visited |-> <<>>, pages |-> <<>>, files |-> <<>>]
       IN /\ SeqToSet(levels'[L].visited) = SeqToSet(prev.visited) \cup visited
          /\ SeqToSet(levels'[L].pages) = SeqToSet(prev.pages) \cup pages
          /\ FileUrls(levels'[L].files) = FileUrls(prev.files) \cup files
          /\ Cardinality(FileUrls(levels'[L].files)) = Len(levels'[L].files)]_vars

(* C39: the path of the URL normalizeUrl returns never holds two slashes in
   a row. *)
C39_NoDoubleSlash ==
  (norm.stage >= 1 /\ Parses(norm.once)) =>
    ~Includes(Before(SubSeq(norm.once, Len(Origin) + 1, Len(norm.once)), "?"),
              <<"/", "/">>)

(* C40: writeChunkedUrls with an empty list leaves no part file and no
   .parts.json manifest of an earlier write at the base path: after a
   finalize that has an empty list for urls-level-(L+1).json or for
   remaining-urls-level-L.json the parts of that list are absent. *)
C40_EmptyRemovesParts ==
  [][(now' = now + 1 /\ lastReq'.op = "finalize") =>
       /\ art'[<<"urls", lastReq'.body.level + 1>>].rows = <<>>
            => art'[<<"urls-parts", lastReq'.body.level + 1>>] = Absent
       /\ art'[<<"remaining", lastReq'.body.level>>].rows = <<>>
            => art'[<<"remaining-parts", lastReq'.body.level>>] = Absent]_vars

====
